---- MODULE Spec2Model ----
(***************************************************************************)
(* A model of libDebug's core: a Process that owns a thread table, an      *)
(* active thread reference and a breakpoint table, the Thread tracing       *)
(* state machine, the Breakpoint install/restore protocol, and the event    *)
(* pump next_debug_event.  The kernel (ptrace, waitpid, SIGCHLD) is the     *)
(* environment: it stops, clones, exits and kills threads asynchronously.   *)
(***************************************************************************)
EXTENDS Integers, Sequences, FiniteSets, TLC

(***************************************************************************)
(* Bounds of the model.                                                     *)
(***************************************************************************)
\* Number of mapped target addresses: 0 .. MemSize-1.
MemSize == 2
\* Largest thread id the kernel hands out (the process id is 1).
MaxTid == 2
\* Largest address a breakpoint session (SpecTrap) sets breakpoints at.
MaxTrapAddr == 0
\* Number of asynchronous kernel events (stop, clone, exit, kill) in a run.
MaxKernelEvents == 2

(***************************************************************************)
(* Platform and program constants.                                          *)
(***************************************************************************)
SIGTRAP == 5
SIGKILL == 9
SIGSTOP == 19
SIGCHLD == 17
SIGABRT == 6
PTRACE_EVENT_CLONE == 3
PTRACE_EVENT_EXIT == 6
\* Process::Flag / Thread::Flag values.
Attach == 0
NoAttach == 1
KillOnTracerExit == 2
\* Breakpoint opcodes.
INT3 == 204
UD2a == 15
UD2b == 11
\* A byte that is no trap opcode (NOP).
NOP == 144
minBreakpointSize == 1
maxBreakpointSize == 2

ThePid == 1
NoThread == 0
NoStatus == -1
Tids == 1 .. MaxTid
Addrs == 0 .. (MemSize - 1)
\* Instruction pointers a stopped thread may report.
Ips == 0 .. MemSize
Bytes == {NOP, INT3}

(***************************************************************************)
(* Bitwise and of two naturals (flags & Flag).                              *)
(***************************************************************************)
RECURSIVE BitAnd(_, _)
BitAnd(a, b) ==
    IF a = 0 \/ b = 0 THEN 0
    ELSE (IF a % 2 = 1 /\ b % 2 = 1 THEN 1 ELSE 0) + 2 * BitAnd(a \div 2, b \div 2)

(***************************************************************************)
(* Wait statuses, encoded as the kernel encodes them.                       *)
(***************************************************************************)
W_EXITCODE(code) == code * 256
W_TERMSIG(sig) == sig
W_STOPCODE(sig) == sig * 256 + 127
W_EVENT(evt) == (SIGTRAP + evt * 256) * 256 + 127

WIFEXITED(s) == (s % 128) = 0
WIFSIGNALED(s) == (s % 128) # 0 /\ (s % 128) # 127
WIFSTOPPED(s) == (s % 256) = 127
WIFCONTINUED(s) == s = 65535
WSTOPSIG(s) == (s \div 256) % 256

is_clone_event(status) == (status \div 256) = SIGTRAP + PTRACE_EVENT_CLONE * 256
is_exit_trace_event(status) == (status \div 256) = SIGTRAP + PTRACE_EVENT_EXIT * 256
is_trap_event(status) == WIFSTOPPED(status) /\ WSTOPSIG(status) = SIGTRAP

\* Stop statuses the kernel reports for a traced thread that stops by itself.
StopStatuses == {W_STOPCODE(SIGTRAP), W_STOPCODE(SIGSTOP), W_EVENT(PTRACE_EVENT_EXIT)}

\* EventStatus values a callback may return.
EventStatus == {"Stop", "Continue", "ContinueStep"}

VARIABLES
    mem,            \* target memory: address -> byte
    mem0,           \* the target memory before the debugger touched it (history)
    breakpoints_,   \* Process::breakpoints_: address -> Breakpoint
    threads_,       \* Process::threads_: the keys of the thread table
    objs,           \* the live Thread objects: tid -> [state_, wstatus_]
    active_thread_, \* Process::active_thread_: a tid with a live object, or NoThread
    proc,           \* "none", "live", "failed", "aborted", "exited"
    kstate,         \* kernel: tid -> "none", "running", "stopped", "dead", "gone"
    pending,        \* kernel: tid -> unreported wait status, or NoStatus
    traced,         \* kernel: the tids with a tracing relation to the debugger
    sigchld,        \* kernel: a SIGCHLD is pending for the (blocking) debugger
    rip,            \* kernel: tid -> instruction pointer of a stopped thread (0 while it runs)
    eventmsg,       \* kernel: tid -> PTRACE_GETEVENTMSG value
    nk,             \* number of asynchronous kernel events so far
    pc,             \* next_debug_event: "idle", "drain", "clone", "callback"
    cur,            \* next_debug_event: tid of current_thread
    first_stop,     \* next_debug_event: the local first_stop
    ev,             \* next_debug_event: the Event handed to the callback
    hist,           \* observations of the last operation (history, not program state)
    dbg,            \* the Debugger object: "none", "alive", "destroyed"
    mask,           \* the debugger process's signal mask: the set of blocked signals
    prev_mask_,     \* Debugger::prev_mask_
    mask0           \* the signal mask before the Debugger was constructed (history)

vars == <<mem, mem0, breakpoints_, threads_, objs, active_thread_, proc, kstate, pending,
          traced, sigchld, rip, eventmsg, nk, pc, cur, first_stop, ev, hist,
          dbg, mask, prev_mask_, mask0>>

kernelVars == <<kstate, pending, traced, sigchld, rip, eventmsg, nk>>
pumpVars == <<pc, cur, first_stop, ev>>
threadVars == <<threads_, objs, active_thread_>>
memVars == <<mem, mem0, breakpoints_>>
dbgVars == <<dbg, mask, prev_mask_, mask0>>

(***************************************************************************)
(* History record: what the last debugger operation did and returned.       *)
(***************************************************************************)
NoHist ==
    [op |-> "none", threw |-> FALSE, addr |-> 0, n |-> 0, ret |-> 0, buf |-> <<>>,
     ops |-> {}, table |-> {}, detached |-> {}, restored |-> TRUE,
     ndrained |-> 0, ncallbacks |-> 0, stopped |-> {}, cbret |-> "none",
     result |-> "none", what |-> <<>>, diag |-> "", page |-> "none", first |-> NoStatus,
     tid |-> NoThread, field0 |-> <<>>, field |-> <<>>, value |-> <<>>, out |-> <<>>,
     reg |-> "", id |-> "", enabled |-> FALSE, bps |-> <<>>]

Min(a, b) == IF a < b THEN a ELSE b

(***************************************************************************)
(* /proc/<pid>/mem: positional read and write.  Addresses outside Addrs are *)
(* unmapped: an access that starts there fails, one that runs into it is    *)
(* short.                                                                   *)
(***************************************************************************)
pread(m, address, n) ==
    IF address \notin Addrs THEN [ret |-> -1, buf |-> <<>>]
    ELSE LET k == Min(n, MemSize - address)
         IN  [ret |-> k, buf |-> [i \in 1 .. k |-> m[address + i - 1]]]

pwrite(m, address, bytes, n) ==
    IF address \notin Addrs THEN [ret |-> -1, mem |-> m]
    ELSE LET k == Min(n, MemSize - address)
         IN  [ret |-> k,
              mem |-> [x \in Addrs |->
                         IF x >= address /\ x < address + k
                         THEN bytes[x - address + 1] ELSE m[x]]]

(***************************************************************************)
(* Process::filter_breakpoints: buf holds n bytes read at address.  A       *)
(* breakpoint is applied only when its address lies in [address, address+n);*)
(* position k (0-based) is overwritten by old_bytes[k - offset].            *)
(***************************************************************************)
filter_covers(bps, address, n, k) ==
    {a \in DOMAIN bps :
        /\ a >= address /\ a < address + n
        /\ k >= a - address /\ k < (a - address) + bps[a].size_
        /\ k < n}

\* A filter that leaves the buffer as read.
filter_breakpoints_none(bps, address, buf, n) == buf

\* A filter that writes every byte of a breakpoint that starts among the
\* bytes read, also those beyond the end of the read.
filter_breakpoints_unbounded(bps, address, buf, n) ==
    [i \in 1 .. Len(buf) |->
        LET covers == {a \in DOMAIN bps :
                          /\ a >= address /\ a < address + n
                          /\ i - 1 >= a - address /\ i - 1 < (a - address) + bps[a].size_}
        IN  IF covers # {}
            THEN bps[CHOOSE a \in covers : TRUE].old_bytes_[(i - 1) - ((CHOOSE a \in covers : TRUE) - address) + 1]
            ELSE buf[i]]

filter_breakpoints(bps, address, buf, n) ==
    [i \in 1 .. Len(buf) |->
        IF i <= n /\ filter_covers(bps, address, n, i - 1) # {}
        THEN LET a == CHOOSE a \in filter_covers(bps, address, n, i - 1) : TRUE
             IN  bps[a].old_bytes_[(i - 1) - (a - address) + 1]
        ELSE buf[i]]

(***************************************************************************)
(* Process::read_memory and Process::write_memory.                          *)
(***************************************************************************)
read_memory(m, bps, address, n) ==
    LET r == pread(m, address, n)
    IN  IF r.ret > 0
        THEN [ret |-> r.ret, buf |-> filter_breakpoints(bps, address, r.buf, r.ret)]
        ELSE r

\* A write that reports its bytes as written and stores none of them.
write_memory_dropped(m, address, bytes, n) ==
    [ret |-> pwrite(m, address, bytes, n).ret, mem |-> m]

write_memory(m, address, bytes, n) == pwrite(m, address, bytes, n)

(***************************************************************************)
(* Breakpoint: constructor, enable, disable.                                *)
(***************************************************************************)
BreakpointTypes == {"Automatic", "INT3", "UD2"}

BreakpointInstruction(type) ==
    IF type = "UD2" THEN <<UD2a, UD2b>> ELSE <<INT3>>

\* The member initialisers and the constructor's switch, before enable().
NewBreakpoint(address, type) ==
    LET ins == BreakpointInstruction(type)
    IN  [address_ |-> address, hit_count_ |-> 0, old_bytes_ |-> <<0, 0>>,
         new_bytes_ |-> [i \in 1 .. 2 |-> IF i <= Len(ins) THEN ins[i] ELSE 0],
         size_ |-> Len(ins), type_ |-> type, enabled_ |-> FALSE]

\* An enable that installs the trap bytes whether or not the breakpoint is
\* enabled already.
Breakpoint_enable_unguarded(bp, m, bps) ==
    LET r == read_memory(m, bps, bp.address_, bp.size_)
        saved == [i \in 1 .. 2 |-> IF i <= r.ret THEN r.buf[i] ELSE bp.old_bytes_[i]]
        w == write_memory(m, bp.address_, bp.new_bytes_, bp.size_)
    IN  IF r.ret = -1 \/ w.ret = -1 THEN [bp |-> bp, mem |-> m, threw |-> TRUE]
        ELSE [bp |-> [bp EXCEPT !.old_bytes_ = saved, !.enabled_ = TRUE],
              mem |-> w.mem, threw |-> FALSE]

\* Breakpoint::enable against memory m and the process's table bps.
Breakpoint_enable(bp, m, bps) ==
    IF bp.enabled_ THEN [bp |-> bp, mem |-> m, threw |-> FALSE]
    ELSE LET r == read_memory(m, bps, bp.address_, bp.size_)
             saved == [i \in 1 .. 2 |->
                         IF i <= r.ret THEN r.buf[i] ELSE bp.old_bytes_[i]]
             w == write_memory(m, bp.address_, bp.new_bytes_, bp.size_)
         IN  IF r.ret = -1 THEN [bp |-> bp, mem |-> m, threw |-> TRUE]
             ELSE IF w.ret = -1
                  THEN [bp |-> [bp EXCEPT !.old_bytes_ = saved], mem |-> m, threw |-> TRUE]
                  ELSE [bp |-> [bp EXCEPT !.old_bytes_ = saved, !.enabled_ = TRUE],
                        mem |-> w.mem, threw |-> FALSE]

\* A disable that clears the flag and leaves the trap bytes in memory.
Breakpoint_disable_keeps_trap(bp, m) ==
    [bp |-> [bp EXCEPT !.enabled_ = FALSE], mem |-> m, threw |-> FALSE]

\* Breakpoint::disable.
Breakpoint_disable(bp, m) ==
    IF ~bp.enabled_ THEN [bp |-> bp, mem |-> m, threw |-> FALSE]
    ELSE LET w == write_memory(m, bp.address_, bp.old_bytes_, bp.size_)
         IN  IF w.ret = -1 THEN [bp |-> bp, mem |-> m, threw |-> TRUE]
             ELSE [bp |-> [bp EXCEPT !.enabled_ = FALSE], mem |-> w.mem, threw |-> FALSE]

\* Breakpoint::Breakpoint: select the instruction, then enable().
Breakpoint_ctor(address, type, m, bps) ==
    Breakpoint_enable(NewBreakpoint(address, type), m, bps)

\* Process::find_breakpoint: the address as a set of at most one key.
find_breakpoint(bps, address) == {a \in DOMAIN bps : a = address}

\* The table without key a (unordered_map::erase).
MapErase(f, a) == [x \in DOMAIN f \ {a} |-> f[x]]

(***************************************************************************)
(* Thread: the tracing state machine.  ok says whether the kernel accepted  *)
(* the request; a refused request throws before state_ is assigned.         *)
(***************************************************************************)
\* The member initialisers of a Thread.
NewThread == [state_ |-> "Running", wstatus_ |-> 0]

\* Thread::wait, with the status waitpid stored.
Thread_wait(o, status) == [o EXCEPT !.wstatus_ = status, !.state_ = "Stopped"]

\* Thread::step.
Thread_step(o, ok) == IF ok THEN [o EXCEPT !.state_ = "Running"] ELSE o

\* A resume that leaves the recorded state as it was.
Thread_resume_keeps_state(o, ok) == o

\* Thread::resume.
Thread_resume(o, ok) == IF ok THEN [o EXCEPT !.state_ = "Running"] ELSE o

\* A stop that records the thread as Stopped as soon as the signal is sent.
Thread_stop_marks_stopped(o, ok) == IF ok THEN [o EXCEPT !.state_ = "Stopped"] ELSE o

\* Thread::stop (const: it only sends the signal).
Thread_stop(o, ok) == o

\* A kill that records the thread as Stopped at once.
Thread_kill_marks_stopped(o, ok) == IF ok THEN [o EXCEPT !.state_ = "Stopped"] ELSE o

\* Thread::kill (const: it only sends the signal).
Thread_kill(o, ok) == o

\* One entry of hist.ops: operation op ran on thread t, taking pre to post.
OpRec(op, t, pre, post, ok) ==
    [op |-> op, tid |-> t, pre |-> pre.state_, post |-> post.state_, ok |-> ok]

(***************************************************************************)
(* The kernel as the debugger's requests see it.                            *)
(***************************************************************************)
\* ptrace requests other than ATTACH and KILL need a tracee in a ptrace stop.
PtraceOk(ks, tr, t) == t \in tr /\ ks[t] = "stopped"

\* tgkill reaches any thread that still exists.
TgkillOk(ks, t) == ks[t] \in {"running", "stopped"}

\* waitpid has reaped t: a terminated thread leaves the kernel's tables.
Reaped(status) == WIFEXITED(status) \/ WIFSIGNALED(status)

KAfterWait(K, t) ==
    LET st == K.pending[t]
    IN  [kstate |-> IF Reaped(st) THEN [K.kstate EXCEPT ![t] = "gone"] ELSE K.kstate,
         pending |-> [K.pending EXCEPT ![t] = NoStatus],
         traced |-> IF Reaped(st) THEN K.traced \ {t} ELSE K.traced]

\* PTRACE_ATTACH: the thread becomes a tracee and is sent SIGSTOP.
KAfterAttach(K, t) ==
    [kstate |-> [K.kstate EXCEPT ![t] = "stopped"],
     pending |-> [K.pending EXCEPT ![t] = W_STOPCODE(SIGSTOP)],
     traced |-> K.traced \cup {t}]

(***************************************************************************)
(* Thread::Thread(pid, tid, f) against kernel state K = [kstate, pending,   *)
(* traced].  blocks: the synchronous wait has nothing to return yet.        *)
(***************************************************************************)
\* A constructor that attaches and then throws, leaving its thread traced.
Thread_ctor_throws_attached(tid, f, K) ==
    [blocks |-> FALSE, threw |-> TRUE, obj |-> NewThread,
     K |-> IF K.kstate[tid] \in {"running", "stopped"} THEN KAfterAttach(K, tid) ELSE K,
     ops |-> {}]

Thread_ctor(tid, f, K) ==
    LET attach == BitAnd(f, Attach) # 0
        attachOk == K.kstate[tid] \in {"running", "stopped"} /\ tid \notin K.traced
        K1 == IF attach /\ attachOk THEN KAfterAttach(K, tid) ELSE K
        waitable == tid \in K1.traced
        st == K1.pending[tid]
        K2 == IF waitable /\ st # NoStatus THEN KAfterWait(K1, tid) ELSE K1
        o == Thread_wait(NewThread, st)
    IN  IF attach /\ ~attachOk
        THEN [blocks |-> FALSE, threw |-> TRUE, obj |-> NewThread, K |-> K, ops |-> {}]
        ELSE IF ~waitable
        THEN [blocks |-> FALSE, threw |-> TRUE, obj |-> NewThread, K |-> K1, ops |-> {}]
        ELSE IF st = NoStatus
        THEN [blocks |-> TRUE, threw |-> FALSE, obj |-> NewThread, K |-> K1, ops |-> {}]
        ELSE [blocks |-> FALSE,
              \* PTRACE_SETOPTIONS and detect_64_bit need the ptrace stop
              threw |-> ~PtraceOk(K2.kstate, K2.traced, tid),
              obj |-> o, K |-> K2,
              ops |-> {OpRec("wait", tid, NewThread, o, TRUE)}]

\* Thread::~Thread -> Thread::detach: PTRACE_DETACH, its result ignored.
KAfterDetach(K, t) ==
    IF PtraceOk(K.kstate, K.traced, t)
    THEN [kstate |-> [K.kstate EXCEPT ![t] = "running"], pending |-> K.pending,
          traced |-> K.traced \ {t}]
    ELSE K

RECURSIVE KAfterDetachAll(_, _)
KAfterDetachAll(K, S) ==
    IF S = {} THEN K
    ELSE LET t == CHOOSE t \in S : TRUE
         IN  KAfterDetachAll(KAfterDetach(K, t), S \ {t})

\* PTRACE_KILL only needs a tracee.
pid_traced(tr) == ThePid \in tr

KNow == [kstate |-> kstate, pending |-> pending, traced |-> traced]

(***************************************************************************)
(* Initial states: the target either was just spawned (a traced child       *)
(* stopped by SIGTRAP after exec, its SIGCHLD pending) or is a running      *)
(* process to attach to.  No Process object exists yet.                     *)
(***************************************************************************)
\* The target when the Process is constructed: a child just spawned, a
\* running process to attach to, or one that exited before the attach.
TargetModes == {"spawned", "running", "exited"}

\* enumerate_threads: the ids under /proc/<pid>/task.
enumerate_threads(ks) == {t \in Tids : ks[t] \in {"running", "stopped"}}

InitProcess(m, modes) ==
    /\ mem = m
    /\ mem0 = m
    /\ breakpoints_ = << >>
    /\ threads_ = {}
    /\ objs = << >>
    /\ active_thread_ = NoThread
    /\ proc = "none"
    /\ \E mode \in modes :
          /\ kstate = [t \in Tids |-> IF t = ThePid
                                      THEN (CASE mode = "spawned" -> "stopped"
                                              [] mode = "running" -> "running"
                                              [] mode = "exited" -> "gone"
                                              [] mode = "unborn" -> "none")
                                      ELSE "none"]
          /\ pending = [t \in Tids |-> IF t = ThePid /\ mode = "spawned"
                                       THEN W_STOPCODE(SIGTRAP) ELSE NoStatus]
          /\ traced = IF mode = "spawned" THEN {ThePid} ELSE {}
          /\ sigchld = (mode = "spawned")
    /\ rip = [t \in Tids |-> 0]
    /\ eventmsg = [t \in Tids |-> 0]
    /\ nk = 0
    /\ pc = "idle"
    /\ cur = NoThread
    /\ first_stop = TRUE
    /\ ev = NoStatus
    /\ hist = NoHist

\* A Debugger has been constructed, over an empty signal mask.
InitState(m) ==
    /\ InitProcess(m, TargetModes)
    /\ dbg = "alive"
    /\ mask = {SIGCHLD}
    /\ prev_mask_ = {}
    /\ mask0 = {}

(***************************************************************************)
(* Process::Process(pid, flags).  Debugger::attach passes Process::Attach   *)
(* for a running process, Debugger::spawn passes Process::NoAttach for the  *)
(* child it forked.                                                         *)
(***************************************************************************)
\* The Attach branch: enumerate /proc/<pid>/task until nothing new appears.
Process_ctor_attach(K) ==
    LET listed == {t \in Tids : K.kstate[t] \in {"running", "stopped"}}
        f == Attach + KillOnTracerExit
        RECURSIVE Each(_, _, _)
        Each(S, KK, acc) ==
            IF S = {} THEN [threw |-> FALSE, blocks |-> FALSE, K |-> KK, objs |-> acc.objs,
                            ops |-> acc.ops, first |-> acc.first]
            ELSE LET t == CHOOSE t \in S : \A u \in S : t <= u
                     c == Thread_ctor(t, f, KK)
                 IN  IF c.threw \/ c.blocks
                     THEN \* an exception destroys threads_, and with it the
                          \* Threads emplaced so far: ~Thread detaches each
                          [threw |-> c.threw, blocks |-> c.blocks,
                           K |-> IF c.threw THEN KAfterDetachAll(c.K, DOMAIN acc.objs)
                                 ELSE c.K,
                           objs |-> acc.objs, ops |-> acc.ops, first |-> acc.first]
                     ELSE Each(S \ {t}, c.K,
                               [objs |-> acc.objs @@ (t :> c.obj),
                                ops |-> acc.ops \cup c.ops,
                                first |-> IF acc.first = NoThread THEN t ELSE acc.first])
    IN  Each(listed, K, [objs |-> << >>, ops |-> {}, first |-> NoThread])

\* The NoAttach branch: one Thread whose id is the process id.
Process_ctor_noattach(K) ==
    LET c == Thread_ctor(ThePid, NoAttach + KillOnTracerExit, K)
    IN  [threw |-> c.threw, blocks |-> c.blocks, K |-> c.K,
         objs |-> (ThePid :> c.obj), ops |-> c.ops, first |-> NoThread]

Process_ctor(flags, K) ==
    IF BitAnd(flags, Attach) # 0 THEN Process_ctor_attach(K) ELSE Process_ctor_noattach(K)

Construct(flags) ==
    /\ proc = "none"
    /\ flags = (IF traced = {} THEN Attach ELSE NoAttach)
    /\ LET c == Process_ctor(flags, KNow)
       IN  /\ ~c.blocks
           /\ kstate' = c.K.kstate
           /\ pending' = c.K.pending
           /\ traced' = c.K.traced
           /\ IF c.threw
              THEN /\ proc' = "failed"
                   /\ UNCHANGED threadVars
              ELSE /\ proc' = "live"
                   /\ objs' = c.objs
                   /\ threads_' = DOMAIN c.objs
                   /\ active_thread_' = c.first
           /\ hist' = [NoHist EXCEPT !.op = "construct", !.threw = c.threw, !.ops = c.ops,
                                     !.n = flags]
    /\ UNCHANGED <<memVars, sigchld, rip, eventmsg, nk, pumpVars>>
    /\ UNCHANGED dbgVars

Idle == proc = "live" /\ pc = "idle"

(***************************************************************************)
(* Process::add_breakpoint: construct (which installs), then emplace.  An   *)
(* emplace on an existing key inserts nothing, and the Breakpoint just      *)
(* built is destroyed when the function returns: its destructor disables.   *)
(***************************************************************************)
\* An add_breakpoint that puts the breakpoint in the table even when its
\* constructor threw.
add_breakpoint_keeps_failed(m, bps, address) ==
    LET c == Breakpoint_ctor(address, "Automatic", m, bps)
    IN  [threw |-> c.threw, aborts |-> FALSE, mem |-> c.mem, enabled |-> c.bp.enabled_,
         bps |-> IF address \in DOMAIN bps THEN bps ELSE bps @@ (address :> c.bp)]

\* enabled: the enabled_ flag of the Breakpoint the call constructed.
add_breakpoint(m, bps, address) ==
    LET c == Breakpoint_ctor(address, "Automatic", m, bps)
        d == Breakpoint_disable(c.bp, c.mem)
    IN  IF c.threw
        THEN [threw |-> TRUE, aborts |-> FALSE, mem |-> c.mem, bps |-> bps,
              enabled |-> c.bp.enabled_]
        ELSE IF address \in DOMAIN bps
        THEN [threw |-> FALSE, aborts |-> d.threw, mem |-> d.mem, bps |-> bps,
              enabled |-> c.bp.enabled_]
        ELSE [threw |-> FALSE, aborts |-> FALSE, mem |-> c.mem,
              bps |-> bps @@ (address :> c.bp), enabled |-> c.bp.enabled_]

AddBreakpoint(address) ==
    /\ Idle
    /\ LET r == add_breakpoint(mem, breakpoints_, address)
       IN  /\ mem' = r.mem
           /\ breakpoints_' = r.bps
           /\ proc' = IF r.aborts THEN "aborted" ELSE proc
           /\ hist' = [NoHist EXCEPT !.op = "add_breakpoint", !.threw = r.threw,
                                     !.addr = address, !.enabled = r.enabled]
    /\ UNCHANGED <<mem0, threadVars, kernelVars, pumpVars>>
    /\ UNCHANGED dbgVars

(***************************************************************************)
(* Process::remove_breakpoint: erase; the destructor restores the bytes.    *)
(***************************************************************************)
remove_breakpoint(m, bps, address) ==
    IF address \in DOMAIN bps
    THEN LET d == Breakpoint_disable(bps[address], m)
         IN  [aborts |-> d.threw, mem |-> d.mem, bps |-> MapErase(bps, address)]
    ELSE [aborts |-> FALSE, mem |-> m, bps |-> bps]

RemoveBreakpoint(address) ==
    /\ Idle
    /\ LET r == remove_breakpoint(mem, breakpoints_, address)
       IN  /\ mem' = r.mem
           /\ breakpoints_' = r.bps
           /\ proc' = IF r.aborts THEN "aborted" ELSE proc
           /\ hist' = [NoHist EXCEPT !.op = "remove_breakpoint", !.addr = address,
                                     !.n = Cardinality(DOMAIN breakpoints_ \ DOMAIN r.bps)]
    /\ UNCHANGED <<mem0, threadVars, kernelVars, pumpVars>>
    /\ UNCHANGED dbgVars

(***************************************************************************)
(* A caller's Process::read_memory(address, buffer, n).                     *)
(***************************************************************************)
ReadMemory(address, n) ==
    /\ Idle
    /\ LET r == read_memory(mem, breakpoints_, address, n)
       IN  hist' = [NoHist EXCEPT !.op = "read_memory", !.addr = address, !.n = n,
                                  !.ret = r.ret, !.buf = r.buf]
    /\ UNCHANGED <<memVars, threadVars, proc, kernelVars, pumpVars>>
    /\ UNCHANGED dbgVars

(***************************************************************************)
(* Process::write_memory: the bytes go to the target as they are, also      *)
(* over the trap bytes of a breakpoint.                                     *)
(***************************************************************************)
WriteMemory(address, bytes, n) ==
    /\ Idle
    /\ LET w == write_memory(mem, address, bytes, n)
       IN  /\ mem' = w.mem
           /\ hist' = [NoHist EXCEPT !.op = "write_memory", !.addr = address, !.n = n,
                                     !.ret = w.ret, !.buf = bytes]
    /\ UNCHANGED <<mem0, breakpoints_, threadVars, proc, kernelVars, pumpVars>>
    /\ UNCHANGED dbgVars

(***************************************************************************)
(* Breakpoint::enable and Breakpoint::disable called by the user on a       *)
(* breakpoint of the table (find_breakpoint hands out the shared_ptr).      *)
(* hist.enabled is the enabled_ flag the call found.                        *)
(***************************************************************************)
BreakpointEnable(address) ==
    /\ Idle
    /\ address \in DOMAIN breakpoints_
    /\ LET r == Breakpoint_enable(breakpoints_[address], mem, breakpoints_)
       IN  /\ mem' = r.mem
           /\ breakpoints_' = [breakpoints_ EXCEPT ![address] = r.bp]
           /\ hist' = [NoHist EXCEPT !.op = "enable", !.threw = r.threw, !.addr = address,
                                     !.enabled = breakpoints_[address].enabled_]
    /\ UNCHANGED <<mem0, threadVars, proc, kernelVars, pumpVars>>
    /\ UNCHANGED dbgVars

BreakpointDisable(address) ==
    /\ Idle
    /\ address \in DOMAIN breakpoints_
    /\ LET r == Breakpoint_disable(breakpoints_[address], mem)
       IN  /\ mem' = r.mem
           /\ breakpoints_' = [breakpoints_ EXCEPT ![address] = r.bp]
           /\ hist' = [NoHist EXCEPT !.op = "disable", !.threw = r.threw, !.addr = address,
                                     !.enabled = breakpoints_[address].enabled_]
    /\ UNCHANGED <<mem0, threadVars, proc, kernelVars, pumpVars>>
    /\ UNCHANGED dbgVars

(***************************************************************************)
(* Process::step.                                                           *)
(***************************************************************************)
\* A choice of the thread to step that ignores the recorded state.
AnyInTable == threads_

\* The threads the loop may find first: any Stopped thread of the table.
StoppedInTable == {t \in threads_ : objs[t].state_ = "Stopped"}
RunningInTable == {t \in threads_ : objs[t].state_ = "Running"}

Step ==
    /\ Idle
    /\ \E a \in (IF active_thread_ # NoThread THEN {active_thread_}
                 ELSE IF StoppedInTable # {} THEN StoppedInTable ELSE {NoThread}) :
          IF a = NoThread \/ objs[a].state_ # "Stopped"
          THEN \* assert(active_thread_) or Thread::step's assert fails
               /\ proc' = "aborted"
               /\ active_thread_' = a
               /\ hist' = [NoHist EXCEPT !.op = "step", !.tid = active_thread_]
               /\ UNCHANGED <<threads_, objs, kernelVars>>
          ELSE LET ok == PtraceOk(kstate, traced, a)
                   o == Thread_step(objs[a], ok)
               IN  /\ active_thread_' = a
                   /\ objs' = [objs EXCEPT ![a] = o]
                   /\ kstate' = IF ok THEN [kstate EXCEPT ![a] = "running"] ELSE kstate
                   /\ rip' = IF ok THEN [rip EXCEPT ![a] = 0] ELSE rip
                   /\ hist' = [NoHist EXCEPT !.op = "step", !.threw = ~ok, !.tid = active_thread_,
                                             !.ops = {OpRec("step", a, objs[a], o, ok)}]
                   /\ UNCHANGED <<threads_, proc, pending, traced, sigchld, eventmsg, nk>>
    /\ UNCHANGED <<memVars, pumpVars>>
    /\ UNCHANGED dbgVars

(***************************************************************************)
(* Process::resume: resume every Stopped thread, in the table's iteration   *)
(* order.  A refused request throws out of the loop, so the threads visited *)
(* before it (any set of the others) have been resumed.                     *)
(***************************************************************************)
Resume ==
    /\ Idle
    /\ LET good == {t \in StoppedInTable : PtraceOk(kstate, traced, t)}
           bad == StoppedInTable \ good
       IN  \E done \in (IF bad = {} THEN {good} ELSE SUBSET good) :
              /\ objs' = [t \in DOMAIN objs |->
                            IF t \in done THEN Thread_resume(objs[t], TRUE) ELSE objs[t]]
              /\ kstate' = [t \in Tids |-> IF t \in done THEN "running" ELSE kstate[t]]
              /\ rip' = [t \in Tids |-> IF t \in done THEN 0 ELSE rip[t]]
              /\ hist' = [NoHist EXCEPT
                            !.op = "resume", !.threw = (bad # {}),
                            !.ops = {OpRec("resume", t, objs[t], Thread_resume(objs[t], TRUE), TRUE)
                                       : t \in done}
                                    \cup (IF bad = {} THEN {}
                                          ELSE LET t == CHOOSE t \in bad : TRUE
                                               IN  {OpRec("resume", t, objs[t],
                                                          Thread_resume(objs[t], FALSE), FALSE)})]
    /\ UNCHANGED <<memVars, threads_, active_thread_, proc, pending, traced, sigchld,
                   eventmsg, nk, pumpVars>>
    /\ UNCHANGED dbgVars

(***************************************************************************)
(* Process::stop.                                                           *)
(***************************************************************************)
Stop ==
    /\ Idle
    /\ \E a \in (IF active_thread_ # NoThread THEN {active_thread_}
                 ELSE IF RunningInTable # {} THEN RunningInTable ELSE {NoThread}) :
          IF a = NoThread
          THEN /\ hist' = [NoHist EXCEPT !.op = "stop", !.tid = active_thread_]
               /\ UNCHANGED <<objs, proc>>
          ELSE IF objs[a].state_ # "Running"
          THEN \* Thread::stop's assert fails
               /\ proc' = "aborted"
               /\ hist' = [NoHist EXCEPT !.op = "stop", !.tid = active_thread_]
               /\ UNCHANGED objs
          ELSE LET ok == TgkillOk(kstate, a)
                   o == Thread_stop(objs[a], ok)
               IN  /\ objs' = [objs EXCEPT ![a] = o]
                   /\ hist' = [NoHist EXCEPT !.op = "stop", !.threw = ~ok, !.tid = active_thread_,
                                             !.ops = {OpRec("stop", a, objs[a], o, ok)}]
                   /\ UNCHANGED proc
    /\ UNCHANGED <<memVars, threads_, active_thread_, kernelVars, pumpVars>>
    /\ UNCHANGED dbgVars

(***************************************************************************)
(* Thread::kill, called by the owner of a Thread taken from the table.      *)
(***************************************************************************)
ThreadKill(t) ==
    /\ Idle
    /\ t \in threads_
    /\ IF objs[t].state_ # "Running"
       THEN /\ proc' = "aborted"
            /\ hist' = [NoHist EXCEPT !.op = "thread_kill"]
            /\ UNCHANGED objs
       ELSE LET ok == TgkillOk(kstate, t)
                o == Thread_kill(objs[t], ok)
            IN  /\ objs' = [objs EXCEPT ![t] = o]
                /\ hist' = [NoHist EXCEPT !.op = "thread_kill", !.threw = ~ok,
                                          !.ops = {OpRec("kill", t, objs[t], o, ok)}]
                /\ UNCHANGED proc
    /\ UNCHANGED <<memVars, threads_, active_thread_, kernelVars, pumpVars>>
    /\ UNCHANGED dbgVars

(***************************************************************************)
(* Process::kill: PTRACE_KILL on the process id; a refusal exits the        *)
(* debugger.  A stopped tracee is resumed with SIGKILL.                     *)
(***************************************************************************)
Kill ==
    /\ Idle
    /\ IF pid_traced(traced)
       THEN /\ proc' = proc
            /\ IF kstate[ThePid] = "stopped"
               THEN /\ kstate' = [kstate EXCEPT ![ThePid] = "dead"]
                    /\ pending' = [pending EXCEPT ![ThePid] = W_TERMSIG(SIGKILL)]
                    /\ sigchld' = TRUE
               ELSE UNCHANGED <<kstate, pending, sigchld>>
       ELSE /\ proc' = "exited"
            /\ UNCHANGED <<kstate, pending, sigchld>>
    /\ hist' = [NoHist EXCEPT !.op = "kill"]
    /\ UNCHANGED <<memVars, threadVars, traced, rip, eventmsg, nk, pumpVars>>
    /\ UNCHANGED dbgVars

(***************************************************************************)
(* Process::detach: breakpoints_.clear(), then threads_.clear().  A Thread  *)
(* is destroyed (and detaches) when its last shared_ptr goes; the one the   *)
(* active_thread_ member still points to is not.                            *)
(***************************************************************************)
RECURSIVE ClearBreakpoints(_, _)
ClearBreakpoints(m, bps) ==
    IF DOMAIN bps = {} THEN [aborts |-> FALSE, mem |-> m]
    ELSE LET a == CHOOSE a \in DOMAIN bps : TRUE
             d == Breakpoint_disable(bps[a], m)
         IN  IF d.threw THEN [aborts |-> TRUE, mem |-> d.mem]
             ELSE ClearBreakpoints(d.mem, MapErase(bps, a))

\* The Thread objects threads_.clear() destroys.
ClearedThreads(table, active) == table \ {active}

Detach ==
    /\ Idle
    /\ LET b == ClearBreakpoints(mem, breakpoints_)
           gone == ClearedThreads(threads_, active_thread_)
           K == KAfterDetachAll(KNow, gone)
       IN  /\ mem' = b.mem
           /\ breakpoints_' = << >>
           /\ proc' = IF b.aborts THEN "aborted" ELSE proc
           /\ threads_' = {}
           /\ objs' = [t \in DOMAIN objs \ gone |-> objs[t]]
           /\ kstate' = K.kstate
           /\ traced' = K.traced
           /\ hist' = [NoHist EXCEPT
                         !.op = "detach", !.table = threads_, !.detached = gone,
                         !.restored = \A a \in DOMAIN breakpoints_ :
                                         \A i \in 1 .. breakpoints_[a].size_ :
                                            a + i - 1 \in Addrs =>
                                               b.mem[a + i - 1] = breakpoints_[a].old_bytes_[i]]
    /\ UNCHANGED <<mem0, active_thread_, pending, sigchld, rip, eventmsg, nk, pumpVars>>
    /\ UNCHANGED dbgVars

(***************************************************************************)
(* Process::next_debug_event.                                               *)
(*   pc = "idle"     not inside the pump                                    *)
(*   pc = "drain"    at the top of the while loop (waitpid is next)         *)
(*   pc = "clone"    constructing the Thread of a clone event               *)
(*   pc = "callback" about to call callback(e) for current_thread = cur     *)
(***************************************************************************)
\* wait_for_sigchild blocks SIGCHLD before it waits for it.
wait_for_sigchild(m) == m \cup {SIGCHLD}

\* wait_for_sigchild returned SIGCHLD.
PumpWait ==
    /\ Idle
    /\ sigchld
    /\ sigchld' = FALSE
    /\ pc' = "drain"
    /\ first_stop' = TRUE
    /\ hist' = [NoHist EXCEPT !.op = "pump_wait"]
    /\ UNCHANGED <<memVars, threadVars, proc, kstate, pending, traced, rip, eventmsg, nk,
                   cur, ev>>
    /\ mask' = wait_for_sigchild(mask)
    /\ UNCHANGED <<dbg, prev_mask_, mask0>>

\* A timeout that marks every thread of the table Stopped before returning.
PumpTimeout_marks_stopped ==
    /\ Idle
    /\ ~sigchld
    /\ objs' = [t \in DOMAIN objs |-> [objs[t] EXCEPT !.state_ = "Stopped"]]
    /\ hist' = [NoHist EXCEPT !.op = "pump_return", !.ret = 0]
    /\ UNCHANGED <<memVars, threads_, active_thread_, proc, kernelVars, pumpVars>>
    /\ mask' = wait_for_sigchild(mask)
    /\ UNCHANGED <<dbg, prev_mask_, mask0>>

\* wait_for_sigchild timed out: return false.
PumpTimeout ==
    /\ Idle
    /\ ~sigchld
    /\ hist' = [NoHist EXCEPT !.op = "pump_return", !.ret = 0]
    /\ UNCHANGED <<memVars, threadVars, proc, kernelVars, pumpVars>>
    /\ mask' = wait_for_sigchild(mask)
    /\ UNCHANGED <<dbg, prev_mask_, mask0>>

\* What waitpid(-1, ..., __WALL | WNOHANG) may return a status for.
Waitable == {t \in traced : pending[t] # NoStatus}

\* waitpid returned 0 (nothing pending) or -1 (no tracee left): break, return true.
PumpReturn ==
    /\ proc = "live"
    /\ pc = "drain"
    /\ Waitable = {}
    /\ pc' = "idle"
    /\ hist' = [hist EXCEPT !.op = "pump_return", !.ret = 1, !.threw = FALSE, !.ops = {}]
    /\ UNCHANGED <<memVars, threadVars, proc, kernelVars, cur, first_stop, ev>>
    /\ UNCHANGED dbgVars

\* The pump's exception exit: a DebuggerError leaves next_debug_event.
PumpThrow(h) == [h EXCEPT !.op = "pump_threw", !.threw = TRUE]

\* The breakpoint search of a general trap stop at ip: the size i (1, then 2)
\* for which a breakpoint of that size sits at ip - i; 0 when there is none.
\* ip - i wraps around below zero to an address that holds no breakpoint.
\* A search that only finds two-byte breakpoints.
search_breakpoint_wide_only(bps, ip) ==
    IF ip >= 2 /\ find_breakpoint(bps, ip - 2) # {} /\ bps[ip - 2].size_ = 2 THEN 2 ELSE 0

search_breakpoint(bps, ip) ==
    LET hits == {i \in minBreakpointSize .. maxBreakpointSize :
                    /\ ip >= i
                    /\ find_breakpoint(bps, ip - i) # {}
                    /\ bps[ip - i].size_ = i}
    IN  IF hits = {} THEN 0 ELSE CHOOSE i \in hits : \A j \in hits : i <= j

\* The first_stop promotion.
Promote(active, first, t) == IF first THEN t ELSE active

\* The status was reported for a thread that is not in the table.
PumpUnknown(t) ==
    /\ proc = "live"
    /\ pc = "drain"
    /\ t \in Waitable
    /\ t \notin threads_
    /\ LET K == KAfterWait(KNow, t)
       IN  /\ kstate' = K.kstate
           /\ pending' = K.pending
           /\ traced' = K.traced
    /\ hist' = [hist EXCEPT !.op = "pump_unknown", !.threw = FALSE, !.ops = {}]
    /\ UNCHANGED <<memVars, threadVars, proc, sigchld, rip, eventmsg, nk, pumpVars>>
    /\ UNCHANGED dbgVars

\* WIFEXITED: erase the thread; `active_thread_->tid() == tid` dereferences
\* active_thread_, which is undefined when it is null: the build may crash,
\* or take either branch.
PumpExited(t) ==
    /\ proc = "live"
    /\ pc = "drain"
    /\ t \in Waitable
    /\ t \in threads_
    /\ WIFEXITED(pending[t])
    /\ LET K == KAfterWait(KNow, t)
       IN  /\ kstate' = K.kstate
           /\ pending' = K.pending
           /\ traced' = K.traced
    /\ threads_' = threads_ \ {t}
    /\ \E outcome \in (IF active_thread_ = NoThread THEN {"crash", "equal", "unequal"}
                       ELSE IF active_thread_ = t THEN {"equal"} ELSE {"unequal"}) :
          /\ proc' = IF outcome = "crash" THEN "aborted" ELSE proc
          /\ IF outcome = "equal"
             THEN \E n \in (IF threads_' # {} THEN threads_' ELSE {NoThread}) :
                     active_thread_' = n
             ELSE active_thread_' = active_thread_
    /\ objs' = MapErase(objs, t)
    /\ hist' = [hist EXCEPT !.op = "pump_exited", !.ndrained = @ + 1, !.threw = FALSE,
                            !.ops = {}]
    /\ UNCHANGED <<memVars, sigchld, rip, eventmsg, nk, pumpVars>>
    /\ UNCHANGED dbgVars

\* Any other status of a thread in the table.
PumpStatus(t) ==
    /\ proc = "live"
    /\ pc = "drain"
    /\ t \in Waitable
    /\ t \in threads_
    /\ ~WIFEXITED(pending[t])
    /\ LET wstatus == pending[t]
           K == KAfterWait(KNow, t)
           o == [objs[t] EXCEPT !.wstatus_ = wstatus, !.state_ = "Stopped"]
           ctxOk == PtraceOk(K.kstate, K.traced, t)
           ip == rip[t]
           h == [hist EXCEPT !.op = "pump_status", !.ndrained = @ + 1, !.threw = FALSE,
                             !.ops = {}]
       IN  /\ kstate' = K.kstate
           /\ pending' = K.pending
           /\ traced' = K.traced
           /\ objs' = [objs EXCEPT ![t] = o]
           /\ IF WIFCONTINUED(wstatus)
              THEN /\ hist' = h
                   /\ UNCHANGED <<active_thread_, rip, pumpVars>>
              ELSE IF ~ctxOk
              THEN \* get_context throws
                   /\ hist' = PumpThrow(h)
                   /\ pc' = "idle"
                   /\ UNCHANGED <<active_thread_, rip, cur, first_stop, ev>>
              ELSE IF WIFSIGNALED(wstatus)
              THEN /\ active_thread_' = Promote(active_thread_, first_stop, t)
                   /\ first_stop' = FALSE
                   /\ hist' = h
                   /\ UNCHANGED <<rip, pc, cur, ev>>
              ELSE \* WIFSTOPPED
                   /\ active_thread_' = Promote(active_thread_, first_stop, t)
                   /\ first_stop' = FALSE
                   /\ cur' = t
                   /\ ev' = wstatus
                   /\ hist' = [h EXCEPT !.stopped = @ \cup {t}, !.addr = ip]
                   /\ IF is_trap_event(wstatus) /\ ~is_exit_trace_event(wstatus)
                         /\ is_clone_event(wstatus)
                      THEN /\ pc' = "clone"
                           /\ UNCHANGED rip
                      ELSE /\ pc' = "callback"
                           /\ IF is_trap_event(wstatus) /\ ~is_exit_trace_event(wstatus)
                                 /\ search_breakpoint(breakpoints_, ip) # 0
                              THEN rip' = [rip EXCEPT ![t] = ip - search_breakpoint(breakpoints_, ip)]
                              ELSE UNCHANGED rip
    /\ UNCHANGED <<memVars, threads_, proc, sigchld, eventmsg, nk>>
    /\ UNCHANGED dbgVars

\* The clone event: construct a Thread for the new id (a synchronous wait),
\* emplace it, mark it Stopped, resume it; then go on to the callback for
\* the cloning thread.
PumpClone ==
    /\ proc = "live"
    /\ pc = "clone"
    /\ LET new_tid == eventmsg[cur]
           c == Thread_ctor(new_tid, NoAttach + KillOnTracerExit, KNow)
           o == [c.obj EXCEPT !.wstatus_ = 0, !.state_ = "Stopped"]
           ok == PtraceOk(c.K.kstate, c.K.traced, new_tid)
           r == Thread_resume(o, ok)
           inserted == new_tid \notin threads_
       IN  /\ ~c.blocks
           /\ pending' = c.K.pending
           /\ traced' = c.K.traced
           /\ IF c.threw
              THEN /\ kstate' = c.K.kstate
                   /\ hist' = PumpThrow([hist EXCEPT !.ops = c.ops])
                   /\ pc' = "idle"
                   /\ UNCHANGED <<threads_, objs>>
              ELSE /\ threads_' = threads_ \cup {new_tid}
                   /\ objs' = IF inserted THEN objs @@ (new_tid :> r) ELSE objs
                   /\ kstate' = IF ok THEN [c.K.kstate EXCEPT ![new_tid] = "running"]
                                ELSE c.K.kstate
                   /\ hist' = IF ok
                              THEN [hist EXCEPT !.op = "pump_clone", !.threw = FALSE,
                                      !.ops = c.ops \cup {OpRec("resume", new_tid, o, r, ok)}]
                              ELSE PumpThrow([hist EXCEPT !.ops = c.ops])
                   /\ pc' = IF ok THEN "callback" ELSE "idle"
    /\ UNCHANGED <<memVars, active_thread_, proc, sigchld, rip, eventmsg, nk, cur,
                   first_stop, ev>>
    /\ UNCHANGED dbgVars

\* What the pump does with current_thread once callback(e) has returned
\* status: it resumes it, whatever the status.
\* A pump that obeys the status: Stop leaves the thread as it is.
resume_unless_stop(o, status, ok) == IF status = "Stop" THEN o ELSE Thread_resume(o, ok)

resume_after_callback(o, status, ok) == Thread_resume(o, ok)

\* callback(e) returns status; then current_thread->resume().
PumpCallback(status) ==
    /\ proc = "live"
    /\ pc = "callback"
    /\ LET ok == PtraceOk(kstate, traced, cur)
           o == resume_after_callback(objs[cur], status, ok)
           h == [hist EXCEPT !.op = "pump_callback", !.tid = cur,
                             !.cbret = status, !.ncallbacks = @ + 1, !.threw = FALSE,
                             !.ops = {OpRec("resume", cur, objs[cur], o, ok)}]
       IN  /\ objs' = [objs EXCEPT ![cur] = o]
           /\ kstate' = IF ok THEN [kstate EXCEPT ![cur] = "running"] ELSE kstate
           /\ rip' = IF ok THEN [rip EXCEPT ![cur] = 0] ELSE rip
           /\ pc' = IF ok THEN "drain" ELSE "idle"
           /\ hist' = IF ok THEN h ELSE PumpThrow(h)
    /\ UNCHANGED <<memVars, threads_, active_thread_, proc, pending, traced, sigchld,
                   eventmsg, nk, cur, first_stop, ev>>
    /\ UNCHANGED dbgVars

(***************************************************************************)
(* The kernel: what traced threads do on their own.                         *)
(***************************************************************************)
KernelMay == proc = "live" /\ nk < MaxKernelEvents

\* A running tracee stops (a trap, a stop signal, the exit trace event).
KernelStop(t, status, ip) ==
    /\ KernelMay
    /\ t \in traced /\ kstate[t] = "running" /\ pending[t] = NoStatus
    /\ kstate' = [kstate EXCEPT ![t] = "stopped"]
    /\ pending' = [pending EXCEPT ![t] = status]
    /\ rip' = [rip EXCEPT ![t] = ip]
    /\ sigchld' = TRUE
    /\ nk' = nk + 1
    /\ UNCHANGED <<memVars, threadVars, proc, traced, eventmsg, pumpVars, hist>>
    /\ UNCHANGED dbgVars

\* A running tracee clones: it stops with the clone event, and the new
\* thread, traced from birth, starts out stopped by SIGSTOP.
KernelClone(t) ==
    /\ KernelMay
    /\ t \in traced /\ kstate[t] = "running" /\ pending[t] = NoStatus
    /\ \E n \in Tids :
          /\ kstate[n] = "none"
          /\ \A m \in Tids : kstate[m] = "none" => n <= m
          /\ kstate' = [kstate EXCEPT ![t] = "stopped", ![n] = "stopped"]
          /\ pending' = [pending EXCEPT ![t] = W_EVENT(PTRACE_EVENT_CLONE),
                                        ![n] = W_STOPCODE(SIGSTOP)]
          /\ traced' = traced \cup {n}
          /\ eventmsg' = [eventmsg EXCEPT ![t] = n]
          /\ rip' = [rip EXCEPT ![n] = 0]
    /\ sigchld' = TRUE
    /\ nk' = nk + 1
    /\ UNCHANGED <<memVars, threadVars, proc, pumpVars, hist>>
    /\ UNCHANGED dbgVars

\* A running tracee exits.
KernelExit(t) ==
    /\ KernelMay
    /\ t \in traced /\ kstate[t] = "running" /\ pending[t] = NoStatus
    /\ kstate' = [kstate EXCEPT ![t] = "dead"]
    /\ pending' = [pending EXCEPT ![t] = W_EXITCODE(0)]
    /\ sigchld' = TRUE
    /\ nk' = nk + 1
    /\ UNCHANGED <<memVars, threadVars, proc, traced, rip, eventmsg, pumpVars, hist>>
    /\ UNCHANGED dbgVars

\* A tracee, running or stopped, is killed by SIGKILL.
KernelKilled(t) ==
    /\ KernelMay
    /\ t \in traced /\ kstate[t] \in {"running", "stopped"}
    /\ kstate' = [kstate EXCEPT ![t] = "dead"]
    /\ pending' = [pending EXCEPT ![t] = W_TERMSIG(SIGKILL)]
    /\ sigchld' = TRUE
    /\ nk' = nk + 1
    /\ UNCHANGED <<memVars, threadVars, proc, traced, rip, eventmsg, pumpVars, hist>>
    /\ UNCHANGED dbgVars

(***************************************************************************)
(* The Debugger: its constructor and destructor, attach and spawn.          *)
(***************************************************************************)
\* The signals a mask is made of: SIGCHLD and one other signal.
Sigs == {SIGCHLD, SIGABRT}

\* Debugger::Debugger: sigprocmask(SIG_BLOCK, {SIGCHLD}, &prev_mask_).
Debugger_ctor(m) == [mask |-> m \cup {SIGCHLD}, prev_mask_ |-> m]

\* A destructor that unblocks SIGCHLD instead of restoring the saved mask.
Debugger_dtor_unblocks(m, prev) == m \ {SIGCHLD}

\* Debugger::~Debugger: sigprocmask(SIG_SETMASK, &prev_mask_, nullptr).
Debugger_dtor(m, prev) == prev

DebuggerCtor ==
    /\ dbg = "none"
    /\ dbg' = "alive"
    /\ mask' = Debugger_ctor(mask).mask
    /\ prev_mask_' = Debugger_ctor(mask).prev_mask_
    /\ hist' = [NoHist EXCEPT !.op = "debugger_ctor"]
    /\ UNCHANGED <<memVars, threadVars, proc, kernelVars, pumpVars, mask0>>

DebuggerDtor ==
    /\ dbg = "alive"
    /\ pc = "idle"
    /\ dbg' = "destroyed"
    /\ mask' = Debugger_dtor(mask, prev_mask_)
    /\ hist' = [NoHist EXCEPT !.op = "debugger_dtor"]
    /\ UNCHANGED <<memVars, threadVars, proc, kernelVars, pumpVars, prev_mask_, mask0>>

\* Debugger::attach(pid).
DebuggerAttach ==
    /\ dbg = "alive"
    /\ kstate[ThePid] # "none"
    /\ Construct(Attach)

\* What the forked child does up to its first wait status.  A failure
\* before PTRACE_TRACEME aborts an untraced child, which dies of SIGABRT;
\* after it, the SIGABRT of abort() stops the tracee.  killed: a SIGKILL
\* from elsewhere; stopped_other: another signal reaches the tracee before
\* its exec.
ChildOutcomes ==
    {"fork_failed", "setenv", "personality_get", "personality_set", "traceme", "chdir",
     "exec", "ok", "killed", "stopped_other"}

\* The text the child leaves in the shared page.
ChildDiagnostic(outcome) ==
    CASE outcome = "setenv" -> "Failed to disable lazy binding"
      [] outcome = "personality_get" -> "Failed to get current personality"
      [] outcome = "personality_set" -> "Failed to disable ASLR"
      [] outcome = "traceme" -> "Failed to enable tracing"
      [] outcome = "chdir" -> "Failed to change working directory"
      [] outcome = "exec" -> "Failed to execv"
      [] OTHER -> ""

\* The child's first wait status, and whether it is still there.
ChildStatus(outcome) ==
    CASE outcome \in {"setenv", "personality_get", "personality_set", "traceme"}
            -> [kstate |-> "dead", status |-> W_TERMSIG(SIGABRT)]
      [] outcome \in {"chdir", "exec"}
            -> [kstate |-> "stopped", status |-> W_STOPCODE(SIGABRT)]
      [] outcome = "ok" -> [kstate |-> "stopped", status |-> W_STOPCODE(SIGTRAP)]
      [] outcome = "killed" -> [kstate |-> "dead", status |-> W_TERMSIG(SIGKILL)]
      [] outcome = "stopped_other" -> [kstate |-> "stopped", status |-> W_STOPCODE(SIGSTOP)]
      [] OTHER -> [kstate |-> "none", status |-> NoStatus]

\* The checks of the parent after the Process is constructed: the text of
\* the DebuggerError thrown, as <<message, argument>>, or << >> for none.
spawn_verify(thread, shared_mem) ==
    LET st == thread.wstatus_
    IN  IF WIFEXITED(st) THEN <<"The child unexpectedly exited with code", "">>
        ELSE IF WIFSIGNALED(st) THEN <<"The child was unexpectedly killed by signal", "">>
        ELSE IF WIFSTOPPED(st) /\ WSTOPSIG(st) = SIGABRT
        THEN <<"The child unexpectedly aborted", shared_mem>>
        ELSE IF ~WIFSTOPPED(st) \/ WSTOPSIG(st) # SIGTRAP
        THEN <<"The child was not stopped by SIGTRAP", "">>
        ELSE << >>

\* Debugger::spawn, from mmap to its return or throw.
DebuggerSpawn(outcome) ==
    /\ dbg = "alive"
    /\ proc = "none"
    /\ kstate[ThePid] = "none"
    /\ LET ch == ChildStatus(outcome)
           diag == ChildDiagnostic(outcome)
           K0 == [kstate |-> [kstate EXCEPT ![ThePid] = ch.kstate],
                  pending |-> [pending EXCEPT ![ThePid] = ch.status],
                  traced |-> traced \cup {ThePid}]
           c == Process_ctor(NoAttach, K0)
           h == [NoHist EXCEPT !.op = "spawn", !.diag = diag, !.first = ch.status]
       IN  IF outcome = "fork_failed"
           THEN \* case -1: return nullptr
                /\ hist' = [h EXCEPT !.result = "nullptr", !.page = "mapped"]
                /\ UNCHANGED <<threadVars, proc, kstate, pending, traced, sigchld>>
           ELSE /\ ~c.blocks
                /\ kstate' = c.K.kstate
                /\ pending' = c.K.pending
                /\ traced' = c.K.traced
                /\ sigchld' = TRUE
                /\ IF c.threw
                   THEN \* the Process constructor throws: no SCOPE_EXIT yet
                        /\ proc' = "failed"
                        /\ hist' = [h EXCEPT !.result = "error", !.threw = TRUE,
                                             !.what = <<"Thread::Thread failed", "">>,
                                             !.page = "mapped", !.ops = c.ops]
                        /\ UNCHANGED threadVars
                   ELSE LET w == spawn_verify(c.objs[ThePid], diag)
                        IN  /\ proc' = "live"
                            /\ objs' = c.objs
                            /\ threads_' = DOMAIN c.objs
                            /\ active_thread_' = c.first
                            /\ hist' = [h EXCEPT
                                          !.result = IF w = << >> THEN "process" ELSE "error",
                                          !.threw = (w # << >>), !.what = w,
                                          !.page = "unmapped", !.ops = c.ops]
    /\ UNCHANGED <<memVars, rip, eventmsg, nk, pumpVars, dbgVars>>

(***************************************************************************)
(* The specifications.                                                      *)
(***************************************************************************)
\* The target's code is NOPs; nothing of the pump depends on the bytes.
Init == InitState([a \in Addrs |-> NOP])

\* The actions of the event pump.
Pump ==
    \/ PumpWait
    \/ PumpTimeout
    \/ PumpReturn
    \/ \E t \in Tids : PumpUnknown(t)
    \/ \E t \in Tids : PumpExited(t)
    \/ \E t \in Tids : PumpStatus(t)
    \/ PumpClone
    \/ \E status \in EventStatus : PumpCallback(status)

\* The actions of the kernel.
Kernel ==
    \/ \E t \in Tids, status \in StopStatuses, ip \in Ips : KernelStop(t, status, ip)
    \/ \E t \in Tids : KernelClone(t)
    \/ \E t \in Tids : KernelExit(t)
    \/ \E t \in Tids : KernelKilled(t)

\* Execution control: a session that sets no breakpoints.
Next ==
    \/ \E flags \in {Attach, NoAttach} : Construct(flags)
    \/ Step
    \/ Resume
    \/ Stop
    \/ \E t \in Tids : ThreadKill(t)
    \/ Kill
    \/ Detach
    \/ Pump
    \/ Kernel

Spec == Init /\ [][Next]_vars

\* A breakpoint session: set and remove breakpoints, resume, pump, detach.
NextTrap ==
    \/ \E flags \in {Attach, NoAttach} : Construct(flags)
    \/ \E a \in 0 .. MaxTrapAddr : AddBreakpoint(a)
    \/ \E a \in 0 .. MaxTrapAddr : RemoveBreakpoint(a)
    \/ Resume
    \/ Pump
    \/ Kernel

SpecTrap == Init /\ [][NextTrap]_vars

\* The memory interface alone: breakpoints and reads on a constructed Process.
NextMem ==
    \/ \E flags \in {Attach, NoAttach} : Construct(flags)
    \/ \E a \in 0 .. MemSize : AddBreakpoint(a)
    \/ \E a \in 0 .. MemSize : RemoveBreakpoint(a)
    \/ \E a \in 0 .. MemSize, n \in 0 .. MemSize : ReadMemory(a, n)

\* Any original bytes, the trap opcode among them.
InitMem == \E m \in [Addrs -> Bytes] : InitState(m)

SpecMem == InitMem /\ [][NextMem]_vars

\* Breakpoints added, removed, and enabled and disabled by hand.
NextBp ==
    \/ \E flags \in {Attach, NoAttach} : Construct(flags)
    \/ \E a \in 0 .. MemSize : AddBreakpoint(a)
    \/ \E a \in 0 .. MemSize : RemoveBreakpoint(a)
    \/ \E a \in Addrs : BreakpointEnable(a)
    \/ \E a \in Addrs : BreakpointDisable(a)

SpecBp == InitMem /\ [][NextBp]_vars

\* Reads and writes of the target's memory among breakpoint operations; the
\* bytes written are 0x55.
NextWrite ==
    \/ \E flags \in {Attach, NoAttach} : Construct(flags)
    \/ \E a \in 0 .. MemSize : AddBreakpoint(a)
    \/ \E a \in 0 .. MemSize : RemoveBreakpoint(a)
    \/ \E a \in 0 .. MemSize, n \in 0 .. MemSize : ReadMemory(a, n)
    \/ \E a \in 0 .. MemSize, n \in 0 .. MemSize : WriteMemory(a, [i \in 1 .. n |-> 85], n)

SpecWrite == InitMem /\ [][NextWrite]_vars

\* The Debugger's life: constructed over any signal mask, one attach or
\* spawn, the event pump, destruction.
InitDbg ==
    /\ InitProcess([a \in Addrs |-> NOP], {"running", "exited", "unborn"})
    /\ dbg = "none"
    /\ mask \in SUBSET Sigs
    /\ mask0 = mask
    /\ prev_mask_ = {}

NextDbg ==
    \/ DebuggerCtor
    \/ DebuggerAttach
    \/ \E outcome \in ChildOutcomes : DebuggerSpawn(outcome)
    \/ Resume
    \/ Pump
    \/ Kernel
    \/ DebuggerDtor

SpecDbg == InitDbg /\ [][NextDbg]_vars

(***************************************************************************)
(* RegisterRef: a named view of size_ bytes at ptr_.  A field is the        *)
(* sequence of the bytes at ptr_, least significant first (x86 is           *)
(* little-endian); an integer of width W is the sequence of its W bytes.    *)
(***************************************************************************)
\* sizeof(Integer) for the integer types as<> and operator= are used with,
\* and the field sizes the arithmetic operators switch on.
Widths == {1, 2, 4, 8}

Fill(n, c) == [i \in 1 .. n |-> c]

memset(dst, c, n) == [i \in 1 .. Len(dst) |-> IF i <= n THEN c ELSE dst[i]]

memcpy(dst, src, n) == [i \in 1 .. Len(dst) |-> IF i <= n THEN src[i] ELSE dst[i]]

\* RegisterRef::as<Integer>() with sizeof(Integer) = W; junk is what the
\* local holds before it is cleared.
RegisterRef_as(field, W, junk) ==
    memcpy(memset(Fill(W, junk), 0, W), field, Min(Len(field), W))

\* operator= that copies the value without clearing the field first.
RegisterRef_assign_no_clear(field, value) ==
    memcpy(field, value, Min(Len(field), Len(value)))

\* RegisterRef::operator=(Integer value).
RegisterRef_assign(field, value) ==
    memcpy(memset(field, 0, Len(field)), value, Min(Len(field), Len(value)))

\* static_cast<uintN_t>(value) of an unsigned value, N = 8 * n.
static_cast(value, n) == [i \in 1 .. n |-> IF i <= Len(value) THEN value[i] ELSE 0]

\* The carry into byte i of a + b.
RECURSIVE Carry(_, _, _)
Carry(a, b, i) ==
    IF i = 1 THEN 0 ELSE (a[i - 1] + b[i - 1] + Carry(a, b, i - 1)) \div 256

\* a + b and a - b on unsigned integers of Len(a) bytes: modulo 2^(8 * Len(a)).
Plus(a, b) == [i \in 1 .. Len(a) |-> (a[i] + b[i] + Carry(a, b, i)) % 256]

Minus(a, b) ==
    LET complement == [i \in 1 .. Len(b) |-> 255 - b[i]]
    IN  Plus(a, Plus(complement, static_cast(<<1>>, Len(b))))

\* The four arithmetic operators have one shape: a union of u8..u64 that
\* starts indeterminate, a switch on size_ that copies ONE byte of the field
\* into the member of that size, applies the operation to the member and
\* copies ONE byte back; any other size fails the assertion.
RegisterRef_arith(op, field, value, junk) ==
    IF Len(field) \notin Widths
    THEN [field |-> field, asserted |-> TRUE]
    ELSE LET u  == memcpy(Fill(Len(field), junk), field, 1)
             k  == static_cast(value, Len(field))
             u2 == CASE op = "++" -> Plus(u, static_cast(<<1>>, Len(field)))
                     [] op = "--" -> Minus(u, static_cast(<<1>>, Len(field)))
                     [] op = "+=" -> Plus(u, k)
                     [] op = "-=" -> Minus(u, k)
         IN  [field |-> memcpy(field, u2, 1), asserted |-> FALSE]

otherVars == <<memVars, threadVars, proc, kernelVars, pumpVars, dbgVars>>

\* reg = value; reg.as<Integer>() for an Integer of the value's width.
RegAssign(field, value, junk) ==
    /\ LET f == RegisterRef_assign(field, value)
       IN  hist' = [NoHist EXCEPT !.op = "reg_assign", !.field0 = field, !.value = value,
                                  !.field = f,
                                  !.out = RegisterRef_as(f, Len(value), junk)]
    /\ UNCHANGED otherVars

\* ++reg, --reg, reg += value, reg -= value.
RegArith(op, field, value, junk) ==
    /\ LET r == RegisterRef_arith(op, field, value, junk)
       IN  hist' = [NoHist EXCEPT !.op = op, !.field0 = field, !.value = value,
                                  !.field = r.field,
                                  !.result = IF r.asserted THEN "assert" ELSE "ok"]
    /\ UNCHANGED otherVars

(***************************************************************************)
(* Context::get_64: the general-purpose part of the switch.  Each row is    *)
(* <<RegisterId, member of ctx_64_.regs, size, offset>> as make_register    *)
(* is called for it; the three-argument make_register takes the rest of     *)
(* the member from the offset on.                                           *)
(***************************************************************************)
get_64_rows ==
    {
      <<"R15", "r15", 8, 0>>, <<"R14", "r14", 8, 0>>, <<"R13", "r13", 8, 0>>,
      <<"R12", "r12", 8, 0>>, <<"RBP", "rbp", 8, 0>>, <<"RBX", "rbx", 8, 0>>,
      <<"R11", "r11", 8, 0>>, <<"R10", "r10", 8, 0>>, <<"R9", "r9", 8, 0>>,
      <<"R8", "r8", 8, 0>>, <<"RAX", "rax", 8, 0>>, <<"RCX", "rcx", 8, 0>>,
      <<"RDX", "rdx", 8, 0>>, <<"RSI", "rsi", 8, 0>>, <<"RDI", "rdi", 8, 0>>,
      <<"RIP", "rip", 8, 0>>, <<"RSP", "rsp", 8, 0>>, <<"RFLAGS", "rflags", 8, 0>>,
      <<"ORIG_RAX", "orig_rax", 8, 0>>, <<"EAX", "rax", 4, 0>>, <<"EBX", "rbx", 4, 0>>,
      <<"ECX", "rcx", 4, 0>>, <<"EDX", "rdx", 4, 0>>, <<"ESI", "rsi", 4, 0>>,
      <<"EDI", "rdi", 4, 0>>, <<"EIP", "rip", 4, 0>>, <<"ESP", "rsp", 4, 0>>,
      <<"EBP", "rbp", 4, 0>>, <<"R8D", "r8", 4, 0>>, <<"R9D", "r9", 4, 0>>,
      <<"R10D", "r10", 4, 0>>, <<"R11D", "r11", 4, 0>>, <<"R12D", "r12", 4, 0>>,
      <<"R13D", "r13", 4, 0>>, <<"R14D", "r14", 4, 0>>, <<"R15D", "r15", 4, 0>>,
      <<"EFLAGS", "rflags", 4, 0>>, <<"ORIG_EAX", "orig_rax", 4, 0>>, <<"AX", "rax", 2, 0>>,
      <<"BX", "rbx", 2, 0>>, <<"CX", "rcx", 2, 0>>, <<"DX", "rdx", 2, 0>>,
      <<"SI", "rsi", 2, 0>>, <<"DI", "rdi", 2, 0>>, <<"BP", "rbp", 2, 0>>,
      <<"SP", "rsp", 2, 0>>, <<"R8W", "r8", 2, 0>>, <<"R9W", "r8", 2, 0>>,
      <<"R10W", "r8", 2, 0>>, <<"R11W", "r8", 2, 0>>, <<"R12W", "r8", 2, 0>>,
      <<"R13W", "r8", 2, 0>>, <<"R14W", "r8", 2, 0>>, <<"R15W", "r8", 2, 0>>,
      <<"AL", "rax", 1, 0>>, <<"BL", "rbx", 1, 0>>, <<"CL", "rcx", 1, 0>>,
      <<"DL", "rdx", 1, 0>>, <<"AH", "rax", 1, 1>>, <<"BH", "rbx", 1, 1>>,
      <<"CH", "rcx", 1, 1>>, <<"DH", "rdx", 1, 1>>, <<"SIL", "rsi", 1, 0>>,
      <<"DIL", "rdi", 1, 0>>, <<"BPL", "rbp", 1, 0>>, <<"SPL", "rsp", 1, 0>>,
      <<"R8B", "r8", 1, 0>>, <<"R9B", "r9", 1, 0>>, <<"R10B", "r10", 1, 0>>,
      <<"R11B", "r11", 1, 0>>, <<"R12B", "r12", 1, 0>>, <<"R13B", "r13", 1, 0>>,
      <<"R14B", "r14", 1, 0>>, <<"R15B", "r15", 1, 0>>
    }

\* The RegisterRef get_64 returns: where it points and how many bytes.
get_64(id) ==
    LET r == CHOOSE x \in get_64_rows : x[1] = id
    IN  [var |-> r[2], size |-> r[3], offset |-> r[4]]

\* The bytes a RegisterRef views, and the context after they are replaced.
Deref(ctx, ref) == SubSeq(ctx[ref.var], ref.offset + 1, ref.offset + ref.size)

Store(ctx, ref, field) ==
    [ctx EXCEPT ![ref.var] =
        [i \in 1 .. 8 |-> IF i > ref.offset /\ i <= ref.offset + ref.size
                          THEN field[i - ref.offset] ELSE @[i]]]

\* For each 64-bit general-purpose register, the identifiers the
\* enumeration lists for its narrower parts: <<register, identifier, size,
\* offset>>, the size and offset being those of the x86 register the
\* identifier names.
Narrower ==
    {<<"RAX", "EAX", 4, 0>>, <<"RAX", "AX", 2, 0>>, <<"RAX", "AH", 1, 1>>,
     <<"RAX", "AL", 1, 0>>,
     <<"RBX", "EBX", 4, 0>>, <<"RBX", "BX", 2, 0>>, <<"RBX", "BH", 1, 1>>,
     <<"RBX", "BL", 1, 0>>,
     <<"RCX", "ECX", 4, 0>>, <<"RCX", "CX", 2, 0>>, <<"RCX", "CH", 1, 1>>,
     <<"RCX", "CL", 1, 0>>,
     <<"RDX", "EDX", 4, 0>>, <<"RDX", "DX", 2, 0>>, <<"RDX", "DH", 1, 1>>,
     <<"RDX", "DL", 1, 0>>,
     <<"RDI", "EDI", 4, 0>>, <<"RDI", "DI", 2, 0>>, <<"RDI", "DIL", 1, 0>>,
     <<"RSI", "ESI", 4, 0>>, <<"RSI", "SI", 2, 0>>, <<"RSI", "SIL", 1, 0>>,
     <<"RBP", "EBP", 4, 0>>, <<"RBP", "BP", 2, 0>>, <<"RBP", "BPL", 1, 0>>,
     <<"RSP", "ESP", 4, 0>>, <<"RSP", "SP", 2, 0>>, <<"RSP", "SPL", 1, 0>>,
     <<"RIP", "EIP", 4, 0>>,
     <<"R8", "R8D", 4, 0>>, <<"R8", "R8W", 2, 0>>, <<"R8", "R8B", 1, 0>>,
     <<"R9", "R9D", 4, 0>>, <<"R9", "R9W", 2, 0>>, <<"R9", "R9B", 1, 0>>,
     <<"R10", "R10D", 4, 0>>, <<"R10", "R10W", 2, 0>>, <<"R10", "R10B", 1, 0>>,
     <<"R11", "R11D", 4, 0>>, <<"R11", "R11W", 2, 0>>, <<"R11", "R11B", 1, 0>>,
     <<"R12", "R12D", 4, 0>>, <<"R12", "R12W", 2, 0>>, <<"R12", "R12B", 1, 0>>,
     <<"R13", "R13D", 4, 0>>, <<"R13", "R13W", 2, 0>>, <<"R13", "R13B", 1, 0>>,
     <<"R14", "R14D", 4, 0>>, <<"R14", "R14W", 2, 0>>, <<"R14", "R14B", 1, 0>>,
     <<"R15", "R15D", 4, 0>>, <<"R15", "R15W", 2, 0>>, <<"R15", "R15B", 1, 0>>}


\* get(R) = V on a context holding background everywhere, then
\* get(id).as<Integer>() at the width of id's RegisterRef.
ContextGet(R, id, V, background, junk) ==
    /\ LET ctx0 == [m \in {r[2] : r \in get_64_rows} |-> background]
           ctx1 == Store(ctx0, get_64(R), RegisterRef_assign(Deref(ctx0, get_64(R)), V))
           ref  == get_64(id)
       IN  hist' = [NoHist EXCEPT !.op = "context_get", !.reg = R, !.id = id, !.value = V,
                                  !.field = Deref(ctx1, ref),
                                  !.out = RegisterRef_as(Deref(ctx1, ref), ref.size, junk)]
    /\ UNCHANGED otherVars

(***************************************************************************)
(* Proc.cpp: hasher and hash_regions.  A uint64_t is the sequence of its    *)
(* eight bytes, least significant first.                                    *)
(***************************************************************************)
MaxMapsLen == 3

\* 0xcbf29ce484222325 and 1099511628211 = 0x100000001b3.
hasher_init == <<37, 35, 34, 132, 228, 156, 242, 203>>

hasher_prime == <<179, 1, 0, 0, 0, 1, 0, 0>>

RECURSIVE BitXor(_, _)
BitXor(a, b) ==
    IF a = 0 THEN b
    ELSE IF b = 0 THEN a
    ELSE ((a + b) % 2) + 2 * BitXor(a \div 2, b \div 2)

\* Column i of the schoolbook product: sum of a[j] * b[i - j + 1], j = 1..i.
RECURSIVE ColSum(_, _, _, _)
ColSum(a, b, i, j) ==
    IF j = 0 THEN 0 ELSE a[j] * b[i - j + 1] + ColSum(a, b, i, j - 1)

RECURSIVE MulCarry(_, _, _)
MulCarry(a, b, i) ==
    IF i = 1 THEN 0 ELSE (ColSum(a, b, i - 1, i - 1) + MulCarry(a, b, i - 1)) \div 256

\* a * b on uint64_t: modulo 2^64.
Mul64(a, b) == [i \in 1 .. 8 |-> (ColSum(a, b, i, i) + MulCarry(a, b, i)) % 256]

\* The step with the two operations the other way round: xor, then multiply.
hasher_step_xor_first(state, byte) ==
    Mul64([i \in 1 .. 8 |-> IF i = 1 THEN BitXor(state[1], byte) ELSE state[i]],
          hasher_prime)

\* hasher::update over one byte: state_ = (state_ * prime) ^ *p.  The byte
\* is widened to 64 bits, so the xor changes the low byte only.
hasher_step(state, byte) ==
    LET product == Mul64(state, hasher_prime)
    IN  [i \in 1 .. 8 |-> IF i = 1 THEN BitXor(product[1], byte) ELSE product[i]]

\* hasher::update over a buffer, and over all the buffers hash_regions reads:
\* the state carries from one call to the next.
RECURSIVE hasher_update(_, _)
hasher_update(state, bytes) ==
    IF bytes = <<>> THEN state
    ELSE hasher_update(hasher_step(state, Head(bytes)), Tail(bytes))

\* hash_regions: 0 when the maps file cannot be opened, else the digest of
\* all its bytes.
hash_regions(opened, maps) ==
    IF ~opened THEN Fill(8, 0) ELSE hasher_update(hasher_init, maps)

HashRegions(opened, maps) ==
    /\ hist' = [NoHist EXCEPT !.op = "hash_regions", !.value = maps,
                              !.result = IF opened THEN "ok" ELSE "nofile",
                              !.out = hash_regions(opened, maps)]
    /\ UNCHANGED otherVars

(***************************************************************************)
(* Process::read_memory_ptrace.  peeks is what the successive               *)
(* PTRACE_PEEKDATA requests do: "ok" (a word is returned), or the errno     *)
(* they fail with.  The result is the returned count; the function has no   *)
(* other return value.                                                      *)
(***************************************************************************)
sizeof_long == 8

RECURSIVE read_memory_ptrace(_, _, _)
read_memory_ptrace(peeks, n, total) ==
    IF n = 0 THEN total
    ELSE IF Head(peeks) = "ESRCH" THEN 0
    ELSE IF Head(peeks) # "ok" THEN total
    ELSE read_memory_ptrace(Tail(peeks), n - Min(n, sizeof_long), total + Min(n, sizeof_long))

ReadMemoryPtrace(peeks, n) ==
    /\ hist' = [NoHist EXCEPT !.op = "read_memory_ptrace", !.n = n, !.value = peeks,
                              !.ret = read_memory_ptrace(peeks, n, 0)]
    /\ UNCHANGED otherVars

\* Process::filter_breakpoints on a buffer whose first n bytes were read at
\* address, for a table bps.
FilterBreakpoints(bps, address, buf, n) ==
    /\ hist' = [NoHist EXCEPT !.op = "filter_breakpoints", !.addr = address, !.n = n,
                              !.bps = bps, !.value = buf,
                              !.out = filter_breakpoints(bps, address, buf, n)]
    /\ UNCHANGED otherVars

\* The data functions on their own: register views and the maps hash.
(***************************************************************************)
(* Thread::get_xstate64, the x87 part.  st_space is the 128-byte array of  *)
(* the xsave area, at offset 32 of a 2688-byte structure.  A source offset  *)
(* past st_space reads the members that follow it (rest stands for their    *)
(* bytes); an offset past the structure is outside the object, and what is  *)
(* read there (ub) is not defined.                                          *)
(***************************************************************************)
FpuRegisterCount == 8
FpuRegisterSize == 16
offsetof_st_space == 32
sizeof_xstate == 2688

\* The byte at st_space + off.
st_space_at(st, rest, ub, off) ==
    IF off < Len(st) THEN st[off + 1]
    ELSE IF offsetof_st_space + off < sizeof_xstate THEN rest
    ELSE ub

\* registers[n] of the context after get_xstate64: with the x87 component
\* present, the memcpy from st_space + FpuRegisterSize * st_space[n *
\* FpuRegisterSize]; otherwise zeros.
x87_registers(x87_present, st, rest, ub) ==
    [n \in 1 .. FpuRegisterCount |->
        [i \in 1 .. FpuRegisterSize |->
            IF x87_present
            THEN st_space_at(st, rest, ub,
                             FpuRegisterSize * st[(n - 1) * FpuRegisterSize + 1] + (i - 1))
            ELSE 0]]

GetXstate64(x87_present, st, rest, ub) ==
    /\ hist' = [NoHist EXCEPT !.op = "get_xstate64", !.enabled = x87_present,
                              !.value = st,
                              !.what = x87_registers(x87_present, st, rest, ub)]
    /\ UNCHANGED otherVars

InitData ==
    /\ InitProcess([a \in Addrs |-> NOP], {"unborn"})
    /\ dbg = "none"
    /\ mask = {}
    /\ mask0 = {}
    /\ prev_mask_ = {}

\* A function's result does not depend on what was computed before: each
\* behaviour applies one function to one input (hist = NoHist).  Bytes are
\* drawn from 0, 1 and 0xff, where zeroing, carry and borrow show;
\* uninitialised storage holds 0 or 0xaa; the filter is given a buffer of
\* trap bytes and tables of 1- and 2-byte breakpoints that saved NOPs, the
\* buffer one byte longer than memory; a maps file is made of 'a', 'b',
\* 'c' and newline; registers are given 0x1122334455667788 or all ones over
\* a context of zeros or 0xaa; the ST register space holds in lane n the
\* byte n followed by fifteen bytes 16 + n, but for one lane whose first
\* byte is 0, 7, 9 or 200.
NextData ==
    \/ /\ hist = NoHist
       /\ \E S \in Widths \cup {16}, W \in Widths, junk \in {0, 170} :
             \E field \in {Fill(S, c) : c \in {0, 170}}, value \in [1 .. W -> {0, 1, 255}] :
                RegAssign(field, value, junk)
    \/ /\ hist = NoHist
       /\ \E op \in {"++", "--", "+=", "-="}, S \in Widths \cup {16}, junk \in {0, 170} :
             \E field \in IF S \in Widths THEN [1 .. S -> {0, 1, 255}] ELSE {Fill(S, 0)},
                value \in {<<1>>, <<255>>, <<0, 1>>} :
                RegArith(op, field, value, junk)
    \/ /\ hist = NoHist
       /\ \E R \in {n[1] : n \in Narrower}, id \in {r[1] : r \in get_64_rows} :
             \E V \in {<<136, 119, 102, 85, 68, 51, 34, 17>>, Fill(8, 255)},
                background \in {Fill(8, 0), Fill(8, 170)}, junk \in {0, 170} :
                ContextGet(R, id, V, background, junk)
    \/ /\ hist = NoHist
       /\ \E opened \in BOOLEAN :
             \E maps \in UNION {[1 .. n -> {97, 98, 99, 10}] : n \in 0 .. MaxMapsLen} :
                HashRegions(opened, maps)
    \/ /\ hist = NoHist
       /\ \E n \in {0, 1, 8, 9, 16, 17} :
             \E peeks \in [1 .. ((n + sizeof_long - 1) \div sizeof_long) ->
                              {"ok", "ESRCH", "EIO", "EFAULT"}] :
                ReadMemoryPtrace(peeks, n)
    \/ /\ hist = NoHist
       /\ \E at \in SUBSET Addrs, address \in Addrs, n \in 0 .. MemSize + 1 :
             \E type \in [at -> {"INT3", "UD2"}] :
                FilterBreakpoints(
                    [a \in at |-> [NewBreakpoint(a, type[a]) EXCEPT
                                      !.old_bytes_ = <<NOP, NOP>>, !.enabled_ = TRUE]],
                    address, Fill(MemSize + 1, INT3), n)
    \/ /\ hist = NoHist
       /\ \E x87_present \in BOOLEAN, k \in 0 .. FpuRegisterCount - 1,
             x \in {0, 7, 9, 200}, ub \in {0, 255} :
             GetXstate64(
                 x87_present,
                 [j \in 1 .. FpuRegisterCount * FpuRegisterSize |->
                     IF (j - 1) % FpuRegisterSize # 0
                     THEN 16 + (j - 1) \div FpuRegisterSize
                     ELSE IF (j - 1) \div FpuRegisterSize = k THEN x
                     ELSE (j - 1) \div FpuRegisterSize],
                 0, ub)

SpecData == InitData /\ [][NextData]_vars

(***************************************************************************)
(* Properties.                                                              *)
(***************************************************************************)
\* The positions of a read of ret bytes at addr that breakpoint a covers.
Covered(a, addr, ret) ==
    {p \in a .. (a + breakpoints_[a].size_ - 1) : p >= addr /\ p < addr + ret}

\* C1: every byte read_memory returns at a position inside a breakpoint of
\* the table is that breakpoint's saved byte, which is the byte the target
\* held originally, whatever add_breakpoint and remove_breakpoint calls
\* came before.
C1_ReadShowsSavedBytes ==
    (hist.op = "read_memory" /\ hist.ret > 0) =>
        \A a \in DOMAIN breakpoints_ :
            \A p \in Covered(a, hist.addr, hist.ret) :
                /\ hist.buf[p - hist.addr + 1] = breakpoints_[a].old_bytes_[p - a + 1]
                /\ hist.buf[p - hist.addr + 1] = mem0[p]

\* C1 witness: a read covered a breakpoint whose trap opcode is in raw
\* memory over a different original byte.
C1_Witness ==
    /\ hist.op = "read_memory" /\ hist.ret > 0
    /\ \E a \in DOMAIN breakpoints_ :
          /\ Covered(a, hist.addr, hist.ret) # {}
          /\ mem[a] = INT3 /\ mem0[a] = NOP
          /\ hist.buf[a - hist.addr + 1] = NOP

\* C2 (as claimed): every breakpoint in the table is enabled and target
\* memory at [addr, addr+size) holds its installed trap bytes.
C2_TableInstalled ==
    \A a \in DOMAIN breakpoints_ :
        /\ breakpoints_[a].enabled_
        /\ \A i \in 1 .. breakpoints_[a].size_ : mem[a + i - 1] = breakpoints_[a].new_bytes_[i]

\* A general trap stop: a SIGTRAP stop that is no exit or clone trace event.
GeneralTrap(status) ==
    is_trap_event(status) /\ ~is_exit_trace_event(status) /\ ~is_clone_event(status)

\* The pump has handled a stop and is about to call the callback for it.
AtCallbackOfStop == proc = "live" /\ pc = "callback" /\ hist.op = "pump_status"

\* C3: when the pump is about to invoke the callback for a general trap stop
\* taken at b.addr + b.size of a breakpoint b in the table, the thread's
\* program counter is b.addr.
C3_PcRewound ==
    (AtCallbackOfStop /\ GeneralTrap(ev)) =>
        \A a \in DOMAIN breakpoints_ :
            a + breakpoints_[a].size_ = hist.addr => rip[cur] = a

\* C3 witness: such a stop happened, and the program counter is the
\* breakpoint's address.
C3_Witness ==
    /\ AtCallbackOfStop /\ GeneralTrap(ev)
    /\ \E a \in DOMAIN breakpoints_ :
          a + breakpoints_[a].size_ = hist.addr /\ rip[cur] = a /\ rip[cur] # hist.addr

\* C4: a successful step or resume takes a Stopped thread to Running, a
\* successful wait takes a Running thread to Stopped, and stop and kill on a
\* Running thread leave it recorded as Running.
C4_ThreadTransitions ==
    \A r \in hist.ops :
        r.ok =>
            /\ r.op \in {"step", "resume"} => (r.pre = "Stopped" /\ r.post = "Running")
            /\ r.op = "wait" => (r.pre = "Running" /\ r.post = "Stopped")
            /\ r.op \in {"stop", "kill"} => (r.pre = "Running" /\ r.post = "Running")
            /\ (r.op \in {"step", "stop", "kill"} /\ r.tid \in DOMAIN objs)
                   => objs[r.tid].state_ = r.post

\* C4 witness: a kill was sent to a Running thread, which is still Running.
C4_Witness ==
    \E r \in hist.ops :
        r.op = "kill" /\ r.ok /\ r.pre = "Running" /\ objs[r.tid].state_ = "Running"

\* C5 (as claimed): the active thread, when set, is a key of the thread table.
C5_ActiveInTable == active_thread_ # NoThread => active_thread_ \in threads_

\* C6 (as claimed): when detach() returns, every thread that was in the
\* table, the active one included, has been detached, and the breakpoint
\* bytes had been restored.
C6_DetachDetachesAll ==
    hist.op = "detach" => (hist.table \subseteq hist.detached /\ hist.restored)

\* C7 (as claimed): when next_debug_event returns true, the callback has been
\* invoked once for each status drained for a thread in the table.
C7_CallbackPerStatus ==
    (hist.op = "pump_return" /\ hist.ret = 1) => hist.ncallbacks = hist.ndrained

\* C8 (as claimed): when next_debug_event returns true and the table is not
\* empty, the active thread is one that was drained as Stopped in this
\* invocation.
C8_ActiveWasStopped ==
    (hist.op = "pump_return" /\ hist.ret = 1 /\ threads_ # {}) =>
        active_thread_ \in hist.stopped

\* The callback has returned and the pump is back at the top of its loop.
AfterCallback == proc = "live" /\ pc = "drain" /\ hist.op = "pump_callback"

C10_StatusObeyed ==
    AfterCallback =>
        /\ hist.cbret = "Continue" => \E r \in hist.ops : r.op = "resume" /\ r.tid = hist.tid
        /\ hist.cbret = "ContinueStep" => \E r \in hist.ops : r.op = "step" /\ r.tid = hist.tid
        /\ hist.cbret = "Stop" => objs[hist.tid].state_ = "Stopped"

\* C11 (as claimed): no error escapes next_debug_event once draining has
\* started: no invocation ends by throwing.
C11_NoErrorEscapes == hist.op # "pump_threw"

\* The pump is inside Thread::Thread for a cloned thread, in a waitpid that
\* has no status to return.
BlockedInClone ==
    /\ proc = "live" /\ pc = "clone"
    /\ Thread_ctor(eventmsg[cur], NoAttach + KillOnTracerExit, KNow).blocks

\* C12 (as claimed): after the timed signal wait has returned, the invocation
\* never blocks again, whatever the order in which statuses are reported.
C12_PumpNeverBlocks == ~BlockedInClone

\* A step in which next_debug_event times out and returns false.
TimedOut ==
    /\ pc = "idle" /\ pc' = "idle"
    /\ hist'.op = "pump_return" /\ hist'.ret = 0
    /\ UNCHANGED kernelVars

\* C13: a timed-out next_debug_event returns false with no callback invoked
\* and the thread table, every thread's state and recorded status, the
\* active thread and the breakpoint table unchanged.
C13_TimeoutChangesNothing ==
    [][TimedOut => (/\ UNCHANGED <<threads_, objs, active_thread_, breakpoints_>>
                    /\ hist'.ncallbacks = 0 /\ ~hist'.threw)]_vars

\* C13 witness: a timeout returned false on a process with a thread in the
\* table and an active thread.
C13_Witness ==
    /\ hist.op = "pump_return" /\ hist.ret = 0
    /\ threads_ # {} /\ active_thread_ # NoThread
    /\ \E t \in threads_ : objs[t].state_ = "Running"

\* The constructor Debugger::attach ran has just ended, by returning or by
\* throwing, and the target has done nothing since.
AfterAttach == hist.op = "construct" /\ hist.n = Attach /\ nk = 0

\* C14 (as claimed): Attach-mode construction of a Process for a live target
\* completes with the thread table's keys equal to the ids of the target's
\* task list.
C14_AttachTableIsTaskList ==
    (AfterAttach /\ enumerate_threads(kstate) # {}) =>
        (proc = "live" /\ threads_ = enumerate_threads(kstate))

\* C15 (as claimed): when the target exited before its thread could be
\* attached, attach still finishes cleanly, with a Process whose thread
\* table holds only the remaining threads (none).
C15_AttachSurvivesExit ==
    (AfterAttach /\ kstate[ThePid] = "gone") =>
        (~hist.threw /\ proc = "live" /\ threads_ = enumerate_threads(kstate))

\* C16 (as claimed): spawn returns a Process exactly when the child's first
\* status is a stop with SIGTRAP; in every other case, a failed fork
\* included, it raises a DebuggerError.
C16_SpawnRaisesUnlessTrap ==
    hist.op = "spawn" =>
        /\ hist.result = "process" <=> hist.first = W_STOPCODE(SIGTRAP)
        /\ hist.result # "process" => (hist.result = "error" /\ hist.threw)

\* C17 (as claimed): whenever the child wrote a diagnostic to the shared
\* page, the DebuggerError spawn raises carries that text.
C17_DiagnosticCarried ==
    (hist.op = "spawn" /\ hist.diag # "") =>
        (hist.result = "error" /\ Len(hist.what) = 2 /\ hist.what[2] = hist.diag)

\* C18 (as claimed): on every path out of spawn in the parent the shared
\* page has been unmapped.
C18_PageUnmapped == hist.op = "spawn" => hist.page = "unmapped"

\* The Debugger has just been destroyed.
AfterDtor == dbg = "destroyed" /\ hist.op = "debugger_dtor"

\* C19: right after the Debugger is destroyed the signal mask is the mask
\* that was in effect before it was constructed.
C19_MaskRestored == AfterDtor => mask = mask0

\* C19 witness: a Debugger constructed with SIGCHLD already blocked has
\* spawned or attached, its pump has waited for SIGCHLD, and it has been
\* destroyed with the mask as it was.
C19_Witness ==
    /\ AfterDtor /\ SIGCHLD \in mask0 /\ mask = mask0
    /\ proc = "live" /\ ~sigchld

\* C20: right after remove_breakpoint(a), whatever add_breakpoint and
\* remove_breakpoint calls came before and whatever the original byte,
\* raw target memory at a holds the byte that was there before any
\* breakpoint was added.
C20_RemoveRestoresBytes ==
    (hist.op = "remove_breakpoint" /\ hist.addr \in Addrs) =>
        mem[hist.addr] = mem0[hist.addr]

\* C20 witness: a breakpoint was erased, and memory is back at the
\* original, non-trap byte.
C20_Witness ==
    /\ hist.op = "remove_breakpoint" /\ hist.n = 1 /\ hist.addr \in Addrs
    /\ mem0[hist.addr] = NOP /\ mem[hist.addr] = NOP

\* C21 (as claimed): when the pump is about to invoke the callback for a
\* general trap stop it identified as a hit of breakpoint b (the stop was
\* taken at b.addr + b.size), b's hit count is at least 1.
C21_HitCounted ==
    (AtCallbackOfStop /\ GeneralTrap(ev)) =>
        \A a \in DOMAIN breakpoints_ :
            a + breakpoints_[a].size_ = hist.addr => breakpoints_[a].hit_count_ >= 1

\* C22: after reg = value with a value of width W on a field of size S,
\* as<> at width W returns the low min(S, W) bytes of the value followed by
\* zeros, and the field holds the same low bytes followed by zeros.
C22_AssignReadBack ==
    hist.op = "reg_assign" =>
        LET S == Len(hist.field)
            W == Len(hist.value)
        IN  /\ S = Len(hist.field0)
            /\ Len(hist.out) = W
            /\ \A i \in 1 .. W :
                  hist.out[i] = IF i <= Min(S, W) THEN hist.value[i] ELSE 0
            /\ \A i \in 1 .. S :
                  hist.field[i] = IF i <= Min(S, W) THEN hist.value[i] ELSE 0

\* C22 witness: a 4-byte value assigned to a 2-byte field that held 0xaa
\* bytes reads back as its low 2 bytes, zero-extended.
C22_Witness ==
    /\ hist.op = "reg_assign"
    /\ hist.field0 = <<170, 170>> /\ hist.value = <<1, 255, 255, 1>>
    /\ hist.field = <<1, 255>> /\ hist.out = <<1, 255, 0, 0>>

\* C23 (as claimed): after ++, --, += k or -= k on a field of size S in
\* {1, 2, 4, 8} holding v, the field holds v+1, v-1, v+k or v-k modulo
\* 2^(8*S).
C23_FieldArithmetic ==
    (hist.op \in {"++", "--", "+=", "-="} /\ Len(hist.field0) \in Widths) =>
        LET v == hist.field0
            k == static_cast(hist.value, Len(v))
        IN  hist.field = CASE hist.op = "++" -> Plus(v, static_cast(<<1>>, Len(v)))
                           [] hist.op = "--" -> Minus(v, static_cast(<<1>>, Len(v)))
                           [] hist.op = "+=" -> Plus(v, k)
                           [] hist.op = "-=" -> Minus(v, k)

\* C24 (as claimed): reading a narrower identifier of a 64-bit register R
\* after R = V yields the bytes of V at the identifier's offset and size.
C24_AliasReadsRegister ==
    hist.op = "context_get" =>
        \A n \in Narrower :
            (n[1] = hist.reg /\ n[2] = hist.id) =>
                hist.out = SubSeq(hist.value, n[4] + 1, n[4] + n[3])

\* C25 (as claimed): hash_regions is FNV-1a, each byte xored into the
\* state before the multiplication: "a" hashes to 0xaf63dc4c8601ec8c and
\* "abc" to 0xe71fa2190541574b.
C25_HashIsFnv1a ==
    (hist.op = "hash_regions" /\ hist.result = "ok") =>
        /\ hist.value = <<97>> => hist.out = <<140, 236, 1, 134, 76, 220, 99, 175>>
        /\ hist.value = <<97, 98, 99>> => hist.out = <<75, 87, 65, 5, 25, 162, 31, 231>>

\* C25 (amended): hash_regions is FNV-1, the state multiplied before each
\* byte is xored in: the empty file hashes to the initial value
\* 0xcbf29ce484222325, "a" to 0xaf63bd4c8601b7be and "abc" to
\* 0xd8dcca186bafadcb.
C25_HashIsFnv1 ==
    (hist.op = "hash_regions" /\ hist.result = "ok") =>
        /\ hist.value = <<>> => hist.out = <<37, 35, 34, 132, 228, 156, 242, 203>>
        /\ hist.value = <<97>> => hist.out = <<190, 183, 1, 134, 76, 189, 99, 175>>
        /\ hist.value = <<97, 98, 99>> => hist.out = <<203, 173, 175, 107, 24, 202, 220, 216>>

\* C25 witness: the maps bytes "abc" have been hashed, to 0xd8dcca186bafadcb.
C25_Witness ==
    /\ hist.op = "hash_regions" /\ hist.result = "ok"
    /\ hist.value = <<97, 98, 99>>
    /\ hist.out = <<203, 173, 175, 107, 24, 202, 220, 216>>

\* C26 (as claimed): after construction, a memory read, step, resume, stop
\* or kill, whether it succeeded or failed, the debugger's own process has
\* been neither aborted nor exited.
C26_FailuresReachCaller ==
    hist.op \in {"construct", "read_memory", "step", "resume", "stop", "kill"} =>
        proc \notin {"aborted", "exited"}

\* C27 (as claimed): a pump step that drains an Exited status for a thread t
\* of the table removes t from the table and goes on; if t was the active
\* thread, the active thread becomes a remaining thread, or none when the
\* table is empty; otherwise (another thread, or no thread, was active) the
\* active thread is unchanged.
C27_ExitedThreadRemoved ==
    [][(hist'.op = "pump_exited" /\ hist'.ndrained = hist.ndrained + 1) =>
          \E t \in threads_ :
              /\ threads_' = threads_ \ {t}
              /\ proc' = proc
              /\ active_thread_ = t =>
                    IF threads_' = {} THEN active_thread_' = NoThread
                    ELSE active_thread_' \in threads_'
              /\ active_thread_ # t => active_thread_' = active_thread_]_vars

C29_RepeatedEnableDisable ==
    [][/\ (hist'.op = "enable" /\ breakpoints_[hist'.addr].enabled_) =>
             (mem' = mem /\ breakpoints_' = breakpoints_ /\ ~hist'.threw)
       /\ (hist'.op = "disable" /\ ~breakpoints_[hist'.addr].enabled_) =>
             (mem' = mem /\ breakpoints_' = breakpoints_ /\ ~hist'.threw)]_vars

\* C29 witness: enable() has been called on a breakpoint that was enabled:
\* it is still enabled, its saved byte is the original byte and target
\* memory holds the trap byte.
C29_Witness ==
    /\ hist.op = "enable" /\ hist.enabled /\ hist.addr \in DOMAIN breakpoints_
    /\ breakpoints_[hist.addr].enabled_
    /\ breakpoints_[hist.addr].old_bytes_[1] = NOP
    /\ mem[hist.addr] = INT3 /\ mem0[hist.addr] = NOP

C31_PeekFailureSurfaced ==
    hist.op = "read_memory_ptrace" =>
        \A i \in 1 .. Len(hist.value) :
            (hist.value[i] # "ok" /\ \A j \in 1 .. (i - 1) : hist.value[j] = "ok") =>
                hist.ret = IF hist.value[i] = "ESRCH" THEN 0 ELSE -1

\* C32: filter_breakpoints leaves every buffer byte as it was read unless
\* its address lies inside a breakpoint of the table and its position is
\* among the n bytes read.
C32_FilterFrame ==
    hist.op = "filter_breakpoints" =>
        /\ Len(hist.out) = Len(hist.value)
        /\ \A i \in 1 .. Len(hist.out) :
              (\/ i > hist.n
               \/ \A a \in DOMAIN hist.bps :
                     ~(hist.addr + i - 1 >= a /\ hist.addr + i - 1 < a + hist.bps[a].size_)) =>
                 hist.out[i] = hist.value[i]

\* C32 witness: one byte read at a 2-byte breakpoint: the first byte is the
\* saved one, the breakpoint's second byte lies beyond the read and the
\* buffer is untouched there.
C32_Witness ==
    /\ hist.op = "filter_breakpoints" /\ hist.n = 1
    /\ hist.addr \in DOMAIN hist.bps /\ hist.bps[hist.addr].size_ = 2
    /\ hist.value = <<INT3, INT3, INT3>>
    /\ hist.out = <<NOP, INT3, INT3>>
\* C33: Process::step applies the step to the active thread when one is set
\* and to no other thread; when none is set it makes a Stopped thread of the
\* table the active thread and steps that one; when none is set and the table
\* holds no Stopped thread the call ends in the failed assertion, with no
\* thread made active and no thread stepped.
C33_StepPicksStoppedThread ==
    [][(hist'.op = "step" /\ Idle /\ nk' = nk) =>
          /\ \A r \in hist'.ops : r.op = "step" /\ r.tid = active_thread_'
          /\ active_thread_ # NoThread =>
                /\ active_thread_' = active_thread_
                /\ objs[active_thread_].state_ = "Stopped" => hist'.ops # {}
          /\ (active_thread_ = NoThread /\ \E t \in threads_ : objs[t].state_ = "Stopped") =>
                /\ active_thread_' \in threads_
                /\ objs[active_thread_'].state_ = "Stopped"
                /\ hist'.ops # {}
                /\ proc' = proc
          /\ (active_thread_ = NoThread /\ \A t \in threads_ : objs[t].state_ # "Stopped") =>
                /\ proc' = "aborted"
                /\ active_thread_' = NoThread
                /\ hist'.ops = {}
                /\ objs' = objs]_vars

\* A step with no active thread set has chosen a Stopped thread and stepped it.
C33_Witness ==
    /\ hist.op = "step" /\ hist.tid = NoThread
    /\ active_thread_ \in threads_
    /\ \E r \in hist.ops : r.tid = active_thread_ /\ r.pre = "Stopped" /\ r.ok

C35_TrueIffEvent ==
    hist.op = "pump_return" => (hist.ret = 1 <=> hist.ndrained > 0)
\* C36 (as claimed): with the x87 component present, get_xstate64 fills
\* register lane n, for every n in 0..7, with the 16 bytes at offset 16*n of
\* the ST register space.
C36_LaneCopiedFromOffset ==
    (hist.op = "get_xstate64" /\ hist.enabled) =>
        \A n \in 0 .. 7 :
            hist.what[n + 1] = SubSeq(hist.value, 16 * n + 1, 16 * n + 16)
\* C37 (as claimed): Process::step only calls Thread::step on a thread
\* recorded Stopped, and Process::stop only calls Thread::stop on a thread
\* recorded Running: no call of step or stop ends in the failed assertion of
\* Thread::step or Thread::stop.
C37_ThreadPreconditionsHold ==
    /\ (hist.op = "step" /\ active_thread_ # NoThread) => proc # "aborted"
    /\ hist.op = "stop" => proc # "aborted"
\* C38 (as claimed): when next_debug_event has returned, the table holds no
\* thread whose last drained status is a termination, by exit or by signal.
C38_NoTerminatedThreadInTable ==
    hist.op = "pump_return" =>
        \A t \in threads_ :
            ~WIFEXITED(objs[t].wstatus_) /\ ~WIFSIGNALED(objs[t].wstatus_)
\* C39: when write_memory(addr, buf, n) has written all n bytes, a
\* read_memory(addr, n) that follows it returns n bytes: buf at every
\* position no breakpoint of the table covers, and at a position a
\* breakpoint covers that breakpoint's saved byte.
C39_ReadAfterWrite ==
    [][(/\ hist.op = "write_memory" /\ hist.n > 0 /\ hist.ret = hist.n
        /\ hist'.op = "read_memory" /\ hist'.addr = hist.addr /\ hist'.n = hist.n) =>
          /\ hist'.ret = hist.n
          /\ \A i \in 1 .. hist.n :
                LET p == hist.addr + i - 1
                    cov == {a \in DOMAIN breakpoints_ :
                               p >= a /\ p < a + breakpoints_[a].size_}
                IN  /\ cov = {} => hist'.buf[i] = hist.buf[i]
                    /\ \A a \in cov : hist'.buf[i] = breakpoints_[a].old_bytes_[p - a + 1]]_vars

\* A read over an enabled breakpoint whose trap byte a write has replaced:
\* the read returns the saved byte, not the byte in the target.
C39_Witness ==
    /\ hist.op = "read_memory" /\ hist.ret = MemSize /\ hist.addr = 0
    /\ 0 \in DOMAIN breakpoints_ /\ 1 \notin DOMAIN breakpoints_
    /\ breakpoints_[0].enabled_
    /\ mem[0] = 85 /\ mem[1] = 85
    /\ hist.buf = <<breakpoints_[0].old_bytes_[1], 85>>
    /\ hist.buf[1] # 85
====